---- MODULE Spec2Model ----
(***************************************************************************)
(* A model of the nucleus AI engine: the plugin registry with its          *)
(* permission gate (nucleus-plugin), the tool-augmented chat loop          *)
(* (nucleus-core chat/manager.rs) and the two chat providers it drives     *)
(* (provider/mistralrs.rs, provider/ollama.rs).                            *)
(*                                                                         *)
(* Strings are modelled as sequences of one-letter tokens, Option<T> as    *)
(* either the constant None or a record [some |-> value].                  *)
(***************************************************************************)
EXTENDS Integers, Sequences, FiniteSets, TLC

None == [none |-> TRUE]

Some(v) == [some |-> v]

(***************************************************************************)
(* nucleus-plugin: Permission                                              *)
(***************************************************************************)

Permission == [read : BOOLEAN, write : BOOLEAN, execute : BOOLEAN]

READ_ONLY == [read |-> TRUE, write |-> FALSE, execute |-> FALSE]

READ_WRITE == [read |-> TRUE, write |-> TRUE, execute |-> FALSE]

ALL == [read |-> TRUE, write |-> TRUE, execute |-> TRUE]

NONE == [read |-> FALSE, write |-> FALSE, execute |-> FALSE]

\* A mutant of allows: the write capability is not compared.
allows_ignoring_write(self, required) ==
    /\ (~required.read \/ self.read)
    /\ (~required.execute \/ self.execute)

\* Permission::allows: every capability the plugin requires is granted.
allows(self, required) ==
    /\ (~required.read \/ self.read)
    /\ (~required.write \/ self.write)
    /\ (~required.execute \/ self.execute)

(***************************************************************************)
(* nucleus-plugin: PluginRegistry                                          *)
(***************************************************************************)

\* The names plugins are registered under (Plugin::name).
PluginNames == {"read_file", "write_file"}

\* A plugin object: its name and its required permission.
Plugin == [name : PluginNames, required : Permission]

VARIABLES
    granted_permissions,  \* PluginRegistry.granted_permissions
    plugins,              \* PluginRegistry.plugins: a map from name to plugin
    regLast               \* the last registry call: its kind, argument, result
                          \* and the map it found

regVars == <<granted_permissions, plugins, regLast>>

VARIABLES
    provider,             \* ChatManager.provider: "mistralrs" or "ollama"
    retrieved,            \* history: what retrieve_context returned to query_stream
    tool_callbacks,       \* names whose callback build_model gave the engine
    pc,                   \* where query_stream is
    messages,             \* query_stream: messages
    accumulated_content,  \* query_stream: accumulated_content of the round
    tool_calls,           \* query_stream: tool_calls of the round
    current_response,     \* query_stream: current_response of the round
    stream_content,       \* MistralRsProvider::chat: accumulated_content
    final_tool_calls,     \* MistralRsProvider::chat: final_tool_calls
    tool_idx,             \* query_stream: position of the for loop
    running,              \* plugin executions that started and did not return
    result,               \* what query_stream returned
    on_chunk_log,         \* history: the arguments of on_chunk, in call order
    cb_log,               \* history: done flags of this chat call's callbacks
    chat_returned,        \* history: how this round's Provider::chat ended
    last_nonempty,        \* history: last non-empty tool_calls of the round
    exec_log,             \* history: every plugin execution started
    chat_calls,           \* history: the calls of Provider::chat so far
    events                \* backend events so far

chatVars == <<provider, tool_callbacks, retrieved, pc, messages,
              accumulated_content,
              tool_calls, current_response, stream_content, final_tool_calls,
              tool_idx, running, result, on_chunk_log, cb_log, chat_returned,
              last_nonempty, exec_log, chat_calls, events>>

\* What never changes after construction.
cfgVars == <<provider, tool_callbacks>>

\* What the callback of query_stream captures.
capVars == <<accumulated_content, tool_calls, current_response, on_chunk_log,
             cb_log, last_nonempty>>

\* The locals of MistralRsProvider::chat.
provVars == <<stream_content, final_tool_calls>>

\* The outcome of a round of query_stream.
endVars == <<pc, messages, tool_idx, result, chat_returned>>

VARIABLES
    text,                 \* chunk_text: text, a sequence of bytes
    chunk_size,           \* chunk_text: chunk_size
    overlap,              \* chunk_text: overlap
    start,                \* chunk_text: start
    chunks,               \* chunk_text: chunks
    chunk_pc,             \* where chunk_text is
    ranges                \* history: the byte range [start, end) of each
                          \* chunk pushed

chunkVars == <<text, chunk_size, overlap, start, chunks, chunk_pc, ranges>>

VARIABLES
    storage_mode,         \* StorageConfig.storage_mode: "embedded" (LanceDB)
                          \* or "grpc" (Qdrant)
    vector_size,          \* LanceDbStore.vector_size, QdrantStore.vector_size
    top_k,                \* StorageConfig.top_k
    table,                \* the rows of the LanceDB table, in insertion order
    collection,           \* the points of the Qdrant collection, in the
                          \* order their ids were first upserted
    storeLast             \* the last VectorStore call: its kind, argument,
                          \* result and the rows and points it found

storeVars == <<storage_mode, vector_size, top_k, table, collection, storeLast>>

VARIABLES
    fs,                   \* the content of each file of the directory
    dir_order,            \* the order in which read_dir lists the files
    index_pc,             \* where index_directory is
    files,                \* index_directory: the files not yet visited
    file,                 \* index_directory: the file of the for loop
    file_chunks,          \* index_directory: chunks of that file
    chunk_index,          \* index_directory: chunks of it pushed so far
    chunk_batch,          \* index_directory: chunk_batch
    chunk_metadata,       \* index_directory: chunk_metadata
    indexed_count,        \* index_directory: indexed_count
    collected,            \* history: what collect_files returned
    batch_log,            \* history: the calls of process_batch of the run
    ragLast,              \* the last RagEngine call that returned
    ragPrev,              \* the RagEngine call that returned before it
    ops_left              \* the calls still to be made

\* The files indexed.
envVars == <<fs, dir_order>>

\* The locals of index_directory.
indexVars == <<index_pc, files, file, file_chunks, chunk_index, chunk_batch,
               chunk_metadata, indexed_count, collected, batch_log>>

ragVars == <<envVars, indexVars, ragLast, ragPrev, ops_left>>

VARIABLES
    history,              \* ConversationHistory.messages of the terminal
    pty_pc,               \* where Command::execute is
    command,              \* Command::execute: the command, and the history
                          \* it was called with
    client_result,        \* AiClient::send_request: result
    lines_left,           \* the lines the server may still send before the
                          \* one that ends the response
    ptyLast,              \* the last Command::execute that returned
    rounds_left           \* the commands still to be typed

ptyVars == <<history, pty_pc, command, client_result, lines_left, ptyLast,
             rounds_left>>

VARIABLES
    handler_pc,           \* where RequestHandler::handle is
    request,              \* RequestHandler::handle: request
    handled,              \* history: what the handler called for the request
    sent,                 \* history: the StreamChunks sent for the request
    written,              \* the StreamChunks write_chunks wrote to the client
    writer_pc             \* where write_chunks is

handlerVars == <<handler_pc, request, handled, sent, written, writer_pc>>

VARIABLES
    world,                \* the directory tree collect_files walks
    indexer_config,       \* IndexerConfig: extensions, exclude_patterns
    walked                \* what collect_files returned

walkVars == <<world, indexer_config, walked>>

VARIABLES
    config_file,          \* config.yaml: None when absent, else its document
    cfgLast               \* the last call of Config::load / load_or_default

configVars == <<config_file, cfgLast>>

VARIABLES
    model_name,           \* Config.llm.model, the model identifier
    model_exists,         \* Path::new(&model_name).exists()
    built                 \* what MistralRsProvider::build_model returned

buildVars == <<model_name, model_exists, built>>

VARIABLES
    embedding_model,      \* MistralRsProvider.embedding_model, the OnceCell
    init_permit,          \* the task that holds the permit of the cell, or 0
    embed_pc,             \* where each task is in embed
    embed_used,           \* the embedding model each task was given
    embed_ret,            \* what embed returned to each task last
    loads,                \* history: the builds of an embedding model started
    loaded_models,        \* history: the builds that succeeded
    local_chats,          \* history: the calls of chat
    embed_calls_left      \* the calls still to be made

embedVars == <<embedding_model, init_permit, embed_pc, embed_used, embed_ret,
               loads, loaded_models, local_chats, embed_calls_left>>

VARIABLES
    next_id,              \* McpClient.next_id
    mcp_pc,               \* where McpClient::request is
    mcp_id,               \* request: id, the number of the Value
    mcp_stdout,           \* the lines the server writes before it ends
    mcp_ids,              \* history: the ids given to the requests
    mcp_rets,             \* history: what the calls of request returned
    mcp_skipped,          \* history: the messages request went past
    mcp_left              \* the calls still to be made

mcpVars == <<next_id, mcp_pc, mcp_id, mcp_stdout, mcp_ids, mcp_rets,
             mcp_skipped, mcp_left>>

VARIABLES
    input_mode,           \* InputState.mode, Session.mode
    line_buffer,          \* InputState.line_buffer, Session.line_buffer
    input_buffer,         \* InputState.input_buffer, Session.input_buffer
    typed_line,           \* history: what was typed in AI mode on this line
    inputLast             \* history: the last key and what it produced

inputVars == <<input_mode, line_buffer, input_buffer, typed_line, inputLast>>

\* The state of the components that are used on their own.
auxVars == <<configVars, buildVars, embedVars, mcpVars, inputVars>>

\* What the registry's operations leave alone.
nonRegVars == <<chatVars, chunkVars, storeVars, ragVars, ptyVars,
                handlerVars, walkVars, auxVars>>

\* What the chat loop and its providers leave alone.
nonChatVars == <<regVars, chunkVars, storeVars, ragVars, ptyVars,
                 handlerVars, walkVars, auxVars>>

\* What chunk_text leaves alone.
nonChunkVars == <<regVars, chatVars, storeVars, ragVars, ptyVars,
                  handlerVars, walkVars, auxVars>>

\* What the vector store leaves alone.
nonStoreVars == <<regVars, chatVars, chunkVars, ragVars, ptyVars,
                  handlerVars, walkVars, auxVars>>

\* What the RagEngine and the request handler leave alone, the store apart.
nonRagHandlerVars == <<regVars, chatVars, text, start, chunks, chunk_pc,
                       ranges, ptyVars, walkVars, auxVars>>

\* What the RagEngine leaves alone, its store apart.
nonRagVars == <<nonRagHandlerVars, handlerVars>>

\* What the terminal's AI client leaves alone.
nonPtyVars == <<regVars, chatVars, chunkVars, storeVars, ragVars, handlerVars,
                walkVars, auxVars>>

vars == <<regVars, chatVars, chunkVars, storeVars, ragVars, ptyVars,
          handlerVars, walkVars, auxVars>>

\* The state of the chat, the knowledge base, the server and the terminal.
coreVars == <<regVars, chatVars, chunkVars, storeVars, ragVars, ptyVars,
              handlerVars, walkVars>>

\* What loading the configuration leaves alone.
nonConfigVars == <<coreVars, buildVars, embedVars, mcpVars, inputVars>>

\* What building the model leaves alone.
nonBuildVars == <<coreVars, configVars, embedVars, mcpVars, inputVars>>

\* What the embedding of the local provider leaves alone.
nonEmbedVars == <<coreVars, configVars, buildVars, mcpVars, inputVars>>

\* What the MCP client leaves alone.
nonMcpVars == <<coreVars, configVars, buildVars, embedVars, inputVars>>

\* What the input of the terminal leaves alone.
nonInputVars == <<coreVars, configVars, buildVars, embedVars, mcpVars>>

\* HashMap::insert: the entry of the key is added or replaced.
MapInsert(map, key, value) ==
    [k \in (DOMAIN map) \cup {key} |-> IF k = key THEN value ELSE map[k]]

\* PluginRegistry::get as a function of the map.
get(map, name) == IF name \in DOMAIN map THEN Some(map[name]) ELSE None

\* PluginRegistry::all as a function of the map (iteration order is not
\* specified by HashMap::values: the result is taken as a set).
all(map) == {map[k] : k \in DOMAIN map}

\* A mutant of register: the plugin is inserted before the permission check.
RegisterInsertFirst(plugin) ==
    /\ plugins' = MapInsert(plugins, plugin.name, plugin)
    /\ regLast' = [op |-> "register", arg |-> plugin,
                   ret |-> allows(granted_permissions, plugin.required),
                   before |-> plugins]
    /\ UNCHANGED <<granted_permissions, nonRegVars>>

\* PluginRegistry::register.
Register(plugin) ==
    /\ IF ~allows(granted_permissions, plugin.required)
       THEN /\ plugins' = plugins
            /\ regLast' = [op |-> "register", arg |-> plugin, ret |-> FALSE,
                           before |-> plugins]
       ELSE /\ plugins' = MapInsert(plugins, plugin.name, plugin)
            /\ regLast' = [op |-> "register", arg |-> plugin, ret |-> TRUE,
                           before |-> plugins]
    /\ UNCHANGED <<granted_permissions, nonRegVars>>

\* PluginRegistry::get, called by a client.
Get(name) ==
    /\ regLast' = [op |-> "get", arg |-> name, ret |-> get(plugins, name),
                   before |-> plugins]
    /\ UNCHANGED <<granted_permissions, plugins, nonRegVars>>

\* PluginRegistry::all, called by a client.
All ==
    /\ regLast' = [op |-> "all", arg |-> None, ret |-> all(plugins),
                   before |-> plugins]
    /\ UNCHANGED <<granted_permissions, plugins, nonRegVars>>

\* Result<T, E>: Ok(value) or Err(error).
Ok(v) == [ok |-> v]

Err(e) == [err |-> e]

IsOk(r) == "ok" \in DOMAIN r

IsErr(r) == "err" \in DOMAIN r

\* The variants of PluginError.
PluginErrorKinds ==
    {"InvalidInput", "ExecutionFailed", "PermissionDenied", "Other"}

PluginError(kind, message) == [kind |-> kind, message |-> message]

\* What the execute of the plugin called name can return: its output or
\* an error of any variant.
PluginResults(name) ==
    {Ok(<<name>>)} \cup {Err(PluginError(k, <<name>>)) : k \in PluginErrorKinds}

\* A mutant of execute: a name without a plugin is answered with an empty
\* output instead of an error.
ExecuteUnknownOk(name, ret) ==
    /\ LET plugin == get(plugins, name) IN
       IF plugin = None
       THEN regLast' = [op |-> "execute", arg |-> name, ret |-> Ok(<< >>),
                        ran |-> None, before |-> plugins]
       ELSE /\ ret \in PluginResults(plugin.some.name)
            /\ regLast' = [op |-> "execute", arg |-> name, ret |-> ret,
                           ran |-> Some(plugin.some.name), before |-> plugins]
    /\ UNCHANGED <<granted_permissions, plugins, nonRegVars>>

\* PluginRegistry::execute: the lookup fails with
\* PluginError::Other("Unknown plugin: {name}"), or the plugin found is
\* executed and its result ret is returned as it is.
Execute(name, ret) ==
    /\ LET plugin == get(plugins, name) IN
       IF plugin = None
       THEN regLast' = [op |-> "execute", arg |-> name,
                        ret |-> Err(PluginError("Other",
                                                <<"Unknown plugin: ", name>>)),
                        ran |-> None, before |-> plugins]
       ELSE /\ ret \in PluginResults(plugin.some.name)
            /\ regLast' = [op |-> "execute", arg |-> name, ret |-> ret,
                           ran |-> Some(plugin.some.name), before |-> plugins]
    /\ UNCHANGED <<granted_permissions, plugins, nonRegVars>>

\* PluginRegistry::new(granted_permissions).
RegistryInit ==
    /\ granted_permissions \in Permission
    /\ plugins = << >>
    /\ regLast = [op |-> "new", arg |-> None, ret |-> None, before |-> << >>]

RegistryNext ==
    \/ \E plugin \in Plugin : Register(plugin)
    \/ \E name \in PluginNames : Get(name)
    \/ All
    \/ \E name \in PluginNames :
          \E ret \in PluginResults(name) : Execute(name, ret)

(***************************************************************************)
(* nucleus-core: the chat loop and its providers                           *)
(***************************************************************************)

\* The most backend events of one query: responses of the engine, tool
\* callbacks the engine runs, lines of the HTTP body.
MaxEvents == 3

\* The incremental contents a backend generates: nothing or one token.
Contents == {<< >>, <<"a">>}

\* The tool_calls lists a backend generates: empty, one call, two calls.
\* A tool call is modelled by the name of its function.
ToolCallLists == {<< >>, <<"read_file">>, <<"write_file", "read_file">>}

OptToolCalls == {None} \cup {Some(l) : l \in ToolCallLists}

\* The user's message and the content a plugin returns.
UserMessage == <<"q">>

PluginOutput(name) == <<name>>

\* What the callback given to Provider::chat captures and changes.
Captures ==
    [accumulated_content |-> accumulated_content,
     tool_calls |-> tool_calls,
     current_response |-> current_response,
     on_chunk_log |-> on_chunk_log,
     cb_log |-> cb_log,
     last_nonempty |-> last_nonempty]

\* ChatResponse: content, done, message.content, message.tool_calls.
ChatResponse(content, done, message_content, message_tool_calls) ==
    [content |-> content, done |-> done,
     message |-> [content |-> message_content,
                  tool_calls |-> message_tool_calls]]

\* The closure query_stream gives to Provider::chat, applied to a response.
Callback(c, response) ==
    [accumulated_content |-> c.accumulated_content \o response.content,
     tool_calls |->
        IF response.message.tool_calls # None
        THEN response.message.tool_calls ELSE c.tool_calls,
     current_response |-> Some(response),
     on_chunk_log |->
        IF ~response.done /\ response.content # << >>
        THEN Append(c.on_chunk_log, response.content) ELSE c.on_chunk_log,
     cb_log |-> Append(c.cb_log, response.done),
     last_nonempty |->
        IF /\ response.message.tool_calls # None
           /\ response.message.tool_calls.some # << >>
        THEN response.message.tool_calls ELSE c.last_nonempty]

RECURSIVE CallbackAll(_, _)
\* The callback applied to a sequence of responses, first to last.
CallbackAll(c, responses) ==
    IF responses = << >> THEN c
    ELSE CallbackAll(Callback(c, Head(responses)), Tail(responses))

\* The captures take the values of c.
SetCaptures(c) ==
    /\ accumulated_content' = c.accumulated_content
    /\ tool_calls' = c.tool_calls
    /\ current_response' = c.current_response
    /\ on_chunk_log' = c.on_chunk_log
    /\ cb_log' = c.cb_log
    /\ last_nonempty' = c.last_nonempty

\* query_stream fails: the error and the tool it names, if any.
Fail(error, tool) ==
    /\ pc' = "failed"
    /\ result' = [err |-> error, tool |-> tool]

\* Provider::chat returned Err: the `?` after .context(...).
ChatFailed ==
    /\ Fail("Failed to get LLM response", None)
    /\ chat_returned' = "err"
    /\ UNCHANGED <<messages, tool_idx>>

\* A mutant of RoundEnd: the assistant message of a tool round is put
\* before the messages of the conversation.
RoundEndPrepending(c) ==
    /\ chat_returned' = "ok"
    /\ IF c.current_response = None
       THEN /\ Fail("No response from LLM", None)
            /\ UNCHANGED <<messages, tool_idx>>
       ELSE IF c.tool_calls # None
       THEN /\ messages' = <<[role |-> "assistant",
                              content |-> c.accumulated_content,
                              tool_calls |-> c.tool_calls]>> \o messages
            /\ tool_idx' = 1
            /\ pc' = IF c.tool_calls.some = << >> THEN "request" ELSE "tools"
            /\ UNCHANGED result
       ELSE /\ pc' = "done"
            /\ result' = [ok |-> c.accumulated_content]
            /\ UNCHANGED <<messages, tool_idx>>

\* A mutant of RoundEnd: a round without a response is taken as an empty
\* answer.
RoundEndAcceptingNone(c) ==
    /\ chat_returned' = "ok"
    /\ IF c.current_response # None /\ c.tool_calls # None
       THEN /\ messages' = Append(messages,
                    [role |-> "assistant",
                     content |-> c.accumulated_content,
                     tool_calls |-> c.tool_calls])
            /\ tool_idx' = 1
            /\ pc' = IF c.tool_calls.some = << >> THEN "request" ELSE "tools"
            /\ UNCHANGED result
       ELSE /\ pc' = "done"
            /\ result' = [ok |-> c.accumulated_content]
            /\ UNCHANGED <<messages, tool_idx>>

\* Provider::chat returned Ok with the captures c: the end of the round.
RoundEnd(c) ==
    /\ chat_returned' = "ok"
    /\ IF c.current_response = None
       THEN /\ Fail("No response from LLM", None)
            /\ UNCHANGED <<messages, tool_idx>>
       ELSE IF c.tool_calls # None
       THEN /\ messages' = Append(messages,
                    [role |-> "assistant",
                     content |-> c.accumulated_content,
                     tool_calls |-> c.tool_calls])
            /\ tool_idx' = 1
            /\ pc' = IF c.tool_calls.some = << >> THEN "request" ELSE "tools"
            /\ UNCHANGED result
       ELSE /\ pc' = "done"
            /\ result' = [ok |-> c.accumulated_content]
            /\ UNCHANGED <<messages, tool_idx>>

\* The state in which a round starts (query_stream, the top of the loop).
NoCaptures ==
    [accumulated_content |-> << >>, tool_calls |-> None,
     current_response |-> None, on_chunk_log |-> on_chunk_log,
     cb_log |-> << >>, last_nonempty |-> None]

\* The top of the loop: the request is built from messages.clone() and
\* Provider::chat is called with a fresh callback.
SendRequest ==
    /\ pc = "request"
    /\ chat_calls' = chat_calls + 1
    /\ chat_returned' = "no"
    /\ SetCaptures(NoCaptures)
    /\ stream_content' = << >>
    /\ final_tool_calls' = None
    /\ pc' = "connecting"
    /\ UNCHANGED <<nonChatVars, cfgVars, retrieved, messages, tool_idx, result, running,
                   exec_log, events>>

(***************************************************************************)
(* MistralRsProvider::chat                                                 *)
(***************************************************************************)

\* stream_chat_request under tokio::time::timeout: the stream is created,
\* or the timeout fires or the engine refuses the request.
MistralCreateStream ==
    /\ pc = "connecting"
    /\ provider = "mistralrs"
    /\ \/ /\ pc' = "streaming"
          /\ UNCHANGED <<messages, tool_idx, result, chat_returned>>
       \/ ChatFailed
    /\ UNCHANGED <<nonChatVars, cfgVars, retrieved, capVars, provVars, running, exec_log,
                   chat_calls, events>>

\* History: the last non-empty tool_calls list the engine generated in
\* this round, after a chunk with the delta delta_tool_calls.
LastNonEmpty(choice, delta_tool_calls) ==
    IF choice /\ delta_tool_calls # None /\ delta_tool_calls.some # << >>
    THEN delta_tool_calls ELSE last_nonempty

\* Response::Chunk: choice tells whether resp.choices has a first element,
\* content and delta_tool_calls are its delta's optional fields.
MistralChunk(choice, content, delta_tool_calls) ==
    /\ pc = "streaming"
    /\ provider = "mistralrs"
    /\ running = {}
    /\ events < MaxEvents
    /\ events' = events + 1
    /\ IF choice /\ content # None
       THEN /\ stream_content' = stream_content \o content.some
            /\ SetCaptures(
                  [Callback(Captures,
                        ChatResponse(content.some, FALSE,
                                     stream_content \o content.some, None))
                   EXCEPT !.last_nonempty =
                        LastNonEmpty(choice, delta_tool_calls)])
       ELSE /\ last_nonempty' = LastNonEmpty(choice, delta_tool_calls)
            /\ UNCHANGED <<stream_content, accumulated_content, tool_calls,
                           current_response, on_chunk_log, cb_log>>
    /\ final_tool_calls' =
          IF choice /\ delta_tool_calls # None
          THEN delta_tool_calls ELSE final_tool_calls
    /\ UNCHANGED <<nonChatVars, cfgVars, retrieved, endVars, running, exec_log, chat_calls>>

\* Any other Response variant: it is logged and skipped.
MistralOther ==
    /\ pc = "streaming"
    /\ provider = "mistralrs"
    /\ running = {}
    /\ events < MaxEvents
    /\ events' = events + 1
    /\ UNCHANGED <<nonChatVars, cfgVars, retrieved, capVars, provVars, endVars, running,
                   exec_log, chat_calls>>

\* The response chat sends after the loop.
MistralFinalResponse ==
    ChatResponse(stream_content, TRUE, stream_content, final_tool_calls)

\* Response::Done or the end of the stream: the loop is left, the final
\* done=true response is sent and chat returns Ok.
MistralFinish ==
    /\ pc = "streaming"
    /\ provider = "mistralrs"
    /\ running = {}
    /\ SetCaptures(Callback(Captures, MistralFinalResponse))
    /\ RoundEnd(Callback(Captures, MistralFinalResponse))
    /\ UNCHANGED <<nonChatVars, cfgVars, retrieved, provVars, running, exec_log, chat_calls,
                   events>>

\* History: the execution started last has returned with the outcome.
Returned(log, outcome) == [log EXCEPT ![Len(log)].outcome = outcome]

\* The engine calls the callback plugin_to_callback made for a plugin:
\* the plugin's execute runs under block_on, on the engine's side and not
\* in the future of query_stream, so also while the engine still generates
\* for a query_stream that was dropped.
EngineToolCallback(name) ==
    /\ pc \in {"streaming", "dropped_generating"}
    /\ provider = "mistralrs"
    /\ running = {}
    /\ name \in tool_callbacks
    /\ events < MaxEvents
    /\ events' = events + 1
    /\ running' = {[by |-> "engine", name |-> name]}
    /\ exec_log' = Append(exec_log, [by |-> "engine", name |-> name,
                                     round |-> chat_calls,
                                     outcome |-> "running"])
    /\ UNCHANGED <<nonChatVars, cfgVars, retrieved, capVars, provVars, endVars, chat_calls>>

\* The plugin's execute returns to the engine's callback.
EngineToolCallbackReturn ==
    /\ \E e \in running : e.by = "engine"
    /\ running' = {}
    /\ exec_log' = Returned(exec_log, "returned")
    /\ UNCHANGED <<nonChatVars, cfgVars, retrieved, capVars, provVars, endVars, chat_calls,
                   events>>

(***************************************************************************)
(* OllamaProvider::chat                                                    *)
(***************************************************************************)

\* A line of the response body: a line of one byte or none, a line that is
\* no OllamaChatResponse, or the JSON of an OllamaChatResponse.
Lines ==
    {[kind |-> "blank"], [kind |-> "garbage"]} \cup
    [kind : {"json"}, content : Contents, done : BOOLEAN,
     tool_calls : OptToolCalls]

\* What one item of bytes_stream completes: one line or two (bytes that
\* complete no line only grow the buffer).
LinesOfChunk ==
    {<<l>> : l \in Lines} \cup {<<l, m>> : l \in Lines, m \in Lines}

IsResponse(line) == line.kind = "json"

\* The ChatResponse made of a parsed line.
OllamaResponse(line) ==
    ChatResponse(line.content, line.done, line.content, line.tool_calls)

RECURSIVE OllamaResponses(_)
\* The responses of the lines that parse, in the order of the lines.
OllamaResponses(lines) ==
    IF lines = << >> THEN << >>
    ELSE IF IsResponse(Head(lines))
         THEN <<OllamaResponse(Head(lines))>> \o OllamaResponses(Tail(lines))
         ELSE OllamaResponses(Tail(lines))

\* http_client.post(..).send(): the body is then streamed, or a transport
\* error or a status that is no success makes chat return Err.
OllamaSend ==
    /\ pc = "connecting"
    /\ provider = "ollama"
    /\ \/ /\ pc' = "streaming"
          /\ UNCHANGED <<messages, tool_idx, result, chat_returned>>
       \/ ChatFailed
    /\ UNCHANGED <<nonChatVars, cfgVars, retrieved, capVars, provVars, running, exec_log,
                   chat_calls, events>>

\* One item of bytes_stream: its bytes complete the lines `lines`, which
\* the inner loop drains from the buffer one by one.
OllamaBytes(lines) ==
    /\ pc = "streaming"
    /\ provider = "ollama"
    /\ events + Len(lines) <= MaxEvents
    /\ events' = events + Len(lines)
    /\ SetCaptures(CallbackAll(Captures, OllamaResponses(lines)))
    /\ UNCHANGED <<nonChatVars, cfgVars, retrieved, provVars, endVars, running, exec_log,
                   chat_calls>>

\* An item of bytes_stream is an error: chat returns it.
OllamaStreamError ==
    /\ pc = "streaming"
    /\ provider = "ollama"
    /\ ChatFailed
    /\ UNCHANGED <<nonChatVars, cfgVars, retrieved, capVars, provVars, running, exec_log,
                   chat_calls, events>>

\* The body ends: chat returns Ok, whatever the buffer still holds.
OllamaEnd ==
    /\ pc = "streaming"
    /\ provider = "ollama"
    /\ RoundEnd(Captures)
    /\ UNCHANGED <<nonChatVars, cfgVars, retrieved, capVars, provVars, running, exec_log,
                   chat_calls, events>>

(***************************************************************************)
(* query_stream: the tool execution loop                                   *)
(***************************************************************************)

\* A mutant of CurrentTool: the loop takes the tool calls last to first.
CurrentToolReversed == tool_calls.some[Len(tool_calls.some) + 1 - tool_idx]

\* The tool call the for loop is at.
CurrentTool == tool_calls.some[tool_idx]

\* After a tool call: the next tool call, or the next request.
AfterTool == IF tool_idx = Len(tool_calls.some) THEN "request" ELSE "tools"

\* registry.execute(tool_name, ..) is called: an unknown name is an error
\* at once, a registered plugin's execute starts.
ToolStart ==
    /\ pc = "tools"
    /\ IF get(plugins, CurrentTool) = None
       THEN /\ Fail("Failed to execute tool", Some(CurrentTool))
            /\ UNCHANGED <<running, exec_log>>
       ELSE /\ pc' = "tool_running"
            /\ running' = running \cup {[by |-> "manager",
                                         name |-> CurrentTool]}
            /\ exec_log' = Append(exec_log, [by |-> "manager",
                                             name |-> CurrentTool,
                                             round |-> chat_calls,
                                             outcome |-> "running"])
            /\ UNCHANGED result
    /\ UNCHANGED <<nonChatVars, cfgVars, retrieved, capVars, provVars, messages, tool_idx,
                   chat_returned, chat_calls, events>>

\* A mutant of ToolReturn: a failed execution is answered with a tool
\* message like a successful one, and the loop goes on.
ToolReturnIgnoringError(ok) ==
    /\ pc = "tool_running"
    /\ running' = running \ {[by |-> "manager", name |-> CurrentTool]}
    /\ exec_log' = Returned(exec_log, IF ok THEN "ok" ELSE "err")
    /\ messages' = Append(messages,
            [role |-> "tool", content |-> PluginOutput(CurrentTool),
             tool_calls |-> None])
    /\ tool_idx' = tool_idx + 1
    /\ pc' = AfterTool
    /\ UNCHANGED <<nonChatVars, cfgVars, retrieved, capVars, provVars, result,
                   chat_returned, chat_calls, events>>

\* The plugin's execute returns: Ok(output) appends the tool message and
\* moves the loop on, Err leaves query_stream through `?`.
ToolReturn(ok) ==
    /\ pc = "tool_running"
    /\ running' = running \ {[by |-> "manager", name |-> CurrentTool]}
    /\ exec_log' = Returned(exec_log, IF ok THEN "ok" ELSE "err")
    /\ IF ok
       THEN /\ messages' = Append(messages,
                    [role |-> "tool", content |-> PluginOutput(CurrentTool),
                     tool_calls |-> None])
            /\ tool_idx' = tool_idx + 1
            /\ pc' = AfterTool
            /\ UNCHANGED result
       ELSE /\ Fail("Failed to execute tool", Some(CurrentTool))
            /\ UNCHANGED <<messages, tool_idx>>
    /\ UNCHANGED <<nonChatVars, cfgVars, retrieved, capVars, provVars, chat_returned,
                   chat_calls, events>>

\* The future of query_stream is dropped while it is suspended: in
\* Provider::chat or in registry.execute. Nothing of it runs again, and
\* the plugin future it awaited is dropped with it. What the engine of
\* mistralrs does with the request is the library's business: it stops
\* (engine_goes_on = FALSE) or it generates on for a while.
Drop(engine_goes_on) ==
    /\ pc \in {"connecting", "streaming", "tool_running"}
    /\ pc' = IF engine_goes_on /\ provider = "mistralrs" /\ pc = "streaming"
             THEN "dropped_generating" ELSE "dropped"
    /\ running' = {e \in running : e.by = "engine"}
    /\ exec_log' = IF pc = "tool_running"
                   THEN Returned(exec_log, "cancelled") ELSE exec_log
    /\ UNCHANGED <<nonChatVars, cfgVars, retrieved, capVars, provVars, messages,
                   tool_idx, result, chat_returned, chat_calls, events>>

\* The engine ends the generation of a request whose stream was dropped.
EngineStops ==
    /\ pc = "dropped_generating"
    /\ running = {}
    /\ pc' = "dropped"
    /\ UNCHANGED <<nonChatVars, cfgVars, retrieved, capVars, provVars, messages,
                   tool_idx, result, chat_returned, running, exec_log,
                   chat_calls, events>>

(***************************************************************************)
(* rag/indexer.rs: chunk_text                                              *)
(*                                                                         *)
(* A text is a sequence of bytes. The bytes of the model are the ASCII     *)
(* bytes "a" and "b", the two bytes C3 A9 of U+00E9 and the three bytes    *)
(* E2 82 AC of U+20AC; byte offsets count from 0 as in the code, so the    *)
(* bytes text[start..end] are SubSeq(text, start + 1, end).                *)
(***************************************************************************)

\* The UTF-8 encodings of the characters texts are made of.
Utf8Chars == {<<"a">>, <<"b">>, <<"C3", "A9">>, <<"E2", "82", "AC">>}

\* The bytes 10xxxxxx, which continue a character.
ContinuationBytes == {"A9", "82", "AC"}

Min(a, b) == IF a <= b THEN a ELSE b

\* A mutant of SaturatingSub: the overlap is not subtracted.
SubtractNothing(a, b) == a

\* usize::saturating_sub.
SaturatingSub(a, b) == IF a >= b THEN a - b ELSE 0

\* str::is_char_boundary: offset 0, the length, or the offset of a byte
\* that does not continue a character.
is_char_boundary(t, index) ==
    \/ index = 0
    \/ index = Len(t)
    \/ /\ index < Len(t)
       /\ t[index + 1] \notin ContinuationBytes

RECURSIVE BoundaryAtOrBefore(_, _, _)
\* while end > start && !text.is_char_boundary(end) { end -= 1 }
BoundaryAtOrBefore(t, s, e) ==
    IF e > s /\ ~is_char_boundary(t, e)
    THEN BoundaryAtOrBefore(t, s, e - 1) ELSE e

RECURSIVE BoundaryAtOrAfter(_, _)
\* while start < text.len() && !text.is_char_boundary(start) { start += 1 }
BoundaryAtOrAfter(t, s) ==
    IF s < Len(t) /\ ~is_char_boundary(t, s)
    THEN BoundaryAtOrAfter(t, s + 1) ELSE s

\* A mutant of ChunkIteration: end is not moved back to a character
\* boundary.
ChunkIterationUnrounded(t, size, over, s, acc) ==
    LET end == Min(s + size, Len(t))
        chunk == SubSeq(t, s + 1, end)
    IN  [chunks |-> IF chunk = << >> THEN acc ELSE Append(acc, chunk),
         pushed |-> chunk # << >>,
         end |-> end,
         done |-> end = Len(t),
         start |-> IF end = Len(t) THEN s
                   ELSE BoundaryAtOrAfter(t, s + SaturatingSub(size, over))]

\* One iteration of the while loop of chunk_text, entered with start = s
\* and chunks = acc: the chunks after it, whether it pushed one, the end
\* it computed, whether it left the loop with break, and the next start.
ChunkIteration(t, size, over, s, acc) ==
    LET end == BoundaryAtOrBefore(t, s, Min(s + size, Len(t)))
        chunk == SubSeq(t, s + 1, end)
    IN  [chunks |-> IF chunk = << >> THEN acc ELSE Append(acc, chunk),
         pushed |-> chunk # << >>,
         end |-> end,
         done |-> end = Len(t),
         start |-> IF end = Len(t) THEN s
                   ELSE BoundaryAtOrAfter(t, s + SaturatingSub(size, over))]

RECURSIVE ChunkLoop(_, _, _, _, _)
\* The while loop of chunk_text from start = s on.
ChunkLoop(t, size, over, s, acc) ==
    IF s >= Len(t) THEN acc
    ELSE LET it == ChunkIteration(t, size, over, s, acc)
         IN  IF it.done THEN it.chunks
             ELSE ChunkLoop(t, size, over, it.start, it.chunks)

\* chunk_text as a function (for sizes with size > over, where the loop
\* ends).
chunk_text(t, size, over) ==
    IF t = << >> THEN << >>
    ELSE IF Len(t) <= size THEN <<t>>
    ELSE ChunkLoop(t, size, over, 0, << >>)

\* chunk_text is called and takes one of its early returns or enters the
\* loop.
ChunkTextEnter ==
    /\ chunk_pc = "called"
    /\ IF text = << >>
       THEN /\ chunks' = << >>
            /\ ranges' = << >>
            /\ chunk_pc' = "returned"
       ELSE IF Len(text) <= chunk_size
       THEN /\ chunks' = <<text>>
            /\ ranges' = <<(<<0, Len(text)>>)>>
            /\ chunk_pc' = "returned"
       ELSE /\ chunks' = << >>
            /\ ranges' = << >>
            /\ chunk_pc' = "loop"
    /\ start' = 0
    /\ UNCHANGED <<text, chunk_size, overlap, nonChunkVars>>

\* One iteration of the while loop. A call that returns pushes at most
\* Len(text) chunks, one per iteration and each iteration further in the
\* text; in a call that never returns the vector grows without bound, and
\* the chunks pushed beyond Len(text) are not recorded.
ChunkTextIterate ==
    /\ chunk_pc = "loop"
    /\ start < Len(text)
    /\ LET it == ChunkIteration(text, chunk_size, overlap, start, chunks)
           recorded == Len(chunks) < Len(text)
       IN  /\ chunks' = IF recorded THEN it.chunks ELSE chunks
           /\ ranges' = IF it.pushed /\ recorded
                        THEN Append(ranges, <<start, it.end>>)
                        ELSE ranges
           /\ start' = it.start
           /\ chunk_pc' = IF it.done THEN "returned" ELSE "loop"
    /\ UNCHANGED <<text, chunk_size, overlap, nonChunkVars>>

\* The loop condition start < text.len() fails: chunks is returned.
ChunkTextExit ==
    /\ chunk_pc = "loop"
    /\ start >= Len(text)
    /\ chunk_pc' = "returned"
    /\ UNCHANGED <<text, chunk_size, overlap, start, chunks, ranges,
                   nonChunkVars>>

(***************************************************************************)
(* rag/types.rs, rag/lancedb_store.rs, rag/qdrant_store.rs: the vector     *)
(* stores behind the VectorStore trait.                                    *)
(*                                                                         *)
(* What the code leaves to the database is modelled by the database's      *)
(* contract: a LanceDB table appends the rows it is given, evaluates the   *)
(* SQL predicate of delete and answers a nearest-neighbour query by        *)
(* ascending distance; a Qdrant collection keeps one point per point id,   *)
(* refuses a vector of another size than the collection's and answers a    *)
(* search by descending score. Neither fixes the order of results of       *)
(* equal distance, and Qdrant applies the points of one upsert one by one. *)
(***************************************************************************)

\* The most rows the embedded table holds (it grows with every add).
MaxRows == 3

\* Document::new.
Document(id, content, embedding) ==
    [id |-> id, content |-> content, embedding |-> embedding,
     metadata |-> << >>]

\* Document::with_metadata.
with_metadata(doc, key, value) ==
    [doc EXCEPT !.metadata = MapInsert(@, key, value)]

\* The Ok(()) of a call that returns nothing.
Unit == "()"

RECURSIVE SumOver(_, _)
\* The sum of the numbers f[i], i in the finite set S.
SumOver(f, S) ==
    IF S = {} THEN 0
    ELSE LET i == CHOOSE j \in S : TRUE IN f[i] + SumOver(f, S \ {i})

\* A score as a fraction with a positive denominator, and the order of
\* scores.
Score(num, den) == [num |-> num, den |-> den]

ScoreLess(a, b) == a.num * b.den < b.num * a.den

ScoreEqual(a, b) == a.num * b.den = b.num * a.den

\* The sequences search may return for n candidates of which the first is
\* index 1: the limit best of them by score, best first, candidates of
\* equal score in any order.
NearestOrders(score, n, limit) ==
    LET m == Min(limit, n)
    IN  {r \in [1..m -> 1..n] :
            /\ \A i, j \in 1..m : i # j => r[i] # r[j]
            /\ \A i \in 1..(m - 1) : ~ScoreLess(score[r[i]], score[r[i + 1]])
            /\ \A c \in 1..n :
                  (\A i \in 1..m : r[i] # c) =>
                      \A i \in 1..m : ~ScoreLess(score[r[i]], score[c])}

\* ---- LanceDbStore ----

\* The row create_record_batch builds of a document: id, content, vector
\* and the nullable source; other metadata is not stored.
LanceRow(doc) ==
    [id |-> doc.id, content |-> doc.content, vector |-> doc.embedding,
     source |-> IF "source" \in DOMAIN doc.metadata
                THEN Some(doc.metadata["source"]) ELSE None]

\* A mutant of create_record_batch: the embedding sizes are not validated
\* and the rows of the right size are written.
create_record_batch_unvalidated(documents) ==
    Ok(SelectSeq([i \in 1..Len(documents) |-> LanceRow(documents[i])],
                 LAMBDA row : Len(row.vector) = vector_size))

\* LanceDbStore::create_record_batch: every embedding is validated
\* against vector_size before any row is built.
create_record_batch(documents) ==
    IF \E i \in 1..Len(documents) :
           Len(documents[i].embedding) # vector_size
    THEN Err("Document has embedding size other than expected")
    ELSE Ok([i \in 1..Len(documents) |-> LanceRow(documents[i])])

\* LanceDbStore::add: the record batch is appended to the table.
LanceAdd(documents) ==
    IF documents = << >> THEN [ret |-> Ok(Unit), table |-> table]
    ELSE LET batch == create_record_batch(documents)
         IN  IF IsErr(batch) THEN [ret |-> batch, table |-> table]
             ELSE [ret |-> Ok(Unit), table |-> table \o batch.ok]

\* The squared L2 distance LanceDB reports as _distance.
Distance(q, v) ==
    SumOver([i \in 1..Len(q) |-> (q[i] - v[i]) * (q[i] - v[i])], 1..Len(q))

\* LanceDbStore::search: the rows of the query result, in its order, as
\* SearchResults with score = 1.0 - distance; the documents carry no
\* embedding and only the source as metadata.
LanceSearchResult(row, q) ==
    [document |-> [id |-> row.id, content |-> row.content,
                   embedding |-> << >>,
                   metadata |-> IF row.source # None
                                THEN MapInsert(<< >>, "source", row.source.some)
                                ELSE << >>],
     score |-> Score(1 - Distance(q, row.vector), 1)]

LanceSearch(q) ==
    IF Len(q) # vector_size
    THEN {Err("Failed to execute LanceDB query")}
    ELSE LET scores == [i \in 1..Len(table) |->
                           LanceSearchResult(table[i], q).score]
         IN  {Ok([i \in 1..Len(r) |-> LanceSearchResult(table[r[i]], q)]) :
                 r \in NearestOrders(scores, Len(table), top_k)}

\* str::replace("\\", "/").
ReplaceBackslash(str) ==
    [i \in 1..Len(str) |-> IF str[i] = "\\" THEN "/" ELSE str[i]]

\* str::starts_with.
StartsWith(str, prefix) ==
    /\ Len(prefix) <= Len(str)
    /\ SubSeq(str, 1, Len(prefix)) = prefix

\* The test of remove_by_source on a stored source.
SourceMatches(point_source, normalized_path) ==
    \/ point_source = normalized_path
    \/ StartsWith(point_source, normalized_path \o <<"/">>)

RECURSIVE Join(_, _)
\* [String]::join.
Join(strs, sep) ==
    IF strs = << >> THEN << >>
    ELSE IF Len(strs) = 1 THEN strs[1]
    ELSE strs[1] \o sep \o Join(Tail(strs), sep)

\* format!("id IN ('{}')", ids_to_delete.join("', '")).
DeleteExpr(ids) ==
    <<"id IN (", "'">> \o Join(ids, <<"'", ", ", "'">>) \o <<"'", ")">>

RECURSIVE SqlLiteral(_, _, _)
\* The SQL string literal whose opening quote is before position i of
\* expr: its text (acc) and the position after its closing quote; two
\* quotes in a row stand for one quote inside the literal.
SqlLiteral(expr, i, acc) ==
    IF i > Len(expr) THEN Err("unterminated literal")
    ELSE IF expr[i] # "'" THEN SqlLiteral(expr, i + 1, Append(acc, expr[i]))
    ELSE IF i < Len(expr) /\ expr[i + 1] = "'"
    THEN SqlLiteral(expr, i + 2, Append(acc, "'"))
    ELSE Ok([text |-> acc, next |-> i + 1])

RECURSIVE SqlInList(_, _, _)
\* The literals of the list of an IN predicate from position i of expr
\* on, where a literal must start: Ok(the literals) or a syntax error.
SqlInList(expr, i, acc) ==
    IF i > Len(expr) \/ expr[i] # "'" THEN Err("syntax error")
    ELSE LET lit == SqlLiteral(expr, i + 1, << >>)
         IN  IF IsErr(lit) THEN lit
             ELSE LET n == lit.ok.next
                      lits == acc \cup {lit.ok.text}
                  IN  IF n = Len(expr) /\ expr[n] = ")" THEN Ok(lits)
                      ELSE IF n < Len(expr) /\ expr[n] = ", "
                      THEN SqlInList(expr, n + 1, lits)
                      ELSE Err("syntax error")

\* Table::delete(predicate) for a predicate id IN (...): the rows whose
\* id is one of the literals are deleted, or the predicate does not parse.
LanceDelete(expr) ==
    IF Len(expr) < 1 \/ expr[1] # "id IN (" THEN Err("syntax error")
    ELSE LET ids == SqlInList(expr, 2, {})
         IN  IF IsErr(ids) THEN ids
             ELSE Ok(SelectSeq(table, LAMBDA row : row.id \notin ids.ok))

\* LanceDbStore::remove_by_source.
LanceRemoveBySource(source_path) ==
    LET normalized_path == ReplaceBackslash(source_path)
        hits == SelectSeq(table, LAMBDA row :
                    /\ row.source # None
                    /\ SourceMatches(ReplaceBackslash(row.source.some),
                                     normalized_path))
        ids_to_delete == [i \in 1..Len(hits) |-> hits[i].id]
        count == Len(ids_to_delete)
    IN  IF ids_to_delete = << >> THEN [ret |-> Ok(count), table |-> table]
        ELSE LET deleted == LanceDelete(DeleteExpr(ids_to_delete))
             IN  IF IsErr(deleted)
                 THEN [ret |-> Err("Failed to delete documents by source"),
                       table |-> table]
                 ELSE [ret |-> Ok(count), table |-> deleted.ok]

\* ---- QdrantStore ----

\* DefaultHasher over the id: the numeric point id (taken as free of
\* collisions).
Hash(id) == <<"hash", id>>

\* The point QdrantStore::add builds of a document: the payload is the
\* metadata, then content and id.
QdrantPoint(doc) ==
    [id |-> Hash(doc.id), vector |-> doc.embedding,
     payload |-> MapInsert(MapInsert(doc.metadata, "content", doc.content),
                           "id", doc.id)]

\* One point upserted: a point of the same id is replaced, a new one is
\* added.
UpsertPoint(coll, point) ==
    IF \E i \in 1..Len(coll) : coll[i].id = point.id
    THEN [i \in 1..Len(coll) |->
             IF coll[i].id = point.id THEN point ELSE coll[i]]
    ELSE Append(coll, point)

RECURSIVE UpsertPoints(_, _)
UpsertPoints(coll, points) ==
    IF points = << >> THEN coll
    ELSE UpsertPoints(UpsertPoint(coll, Head(points)), Tail(points))

\* The subsequence of seq at the positions in S.
Pick(seq, S) ==
    LET F[i \in 0..Len(seq)] ==
            IF i = 0 THEN << >>
            ELSE IF i \in S THEN Append(F[i - 1], seq[i]) ELSE F[i - 1]
    IN  F[Len(seq)]

\* QdrantStore::add: the upsert of the points. The code validates
\* nothing: with a vector of another size among them the server answers
\* with an error, having applied none or some of the other points.
QdrantAdd(documents) ==
    IF documents = << >> THEN {[ret |-> Ok(Unit), collection |-> collection]}
    ELSE LET points == [i \in 1..Len(documents) |->
                           QdrantPoint(documents[i])]
             valid == {i \in 1..Len(points) :
                          Len(points[i].vector) = vector_size}
         IN  IF valid = 1..Len(points)
             THEN {[ret |-> Ok(Unit),
                    collection |-> UpsertPoints(collection, points)]}
             ELSE {[ret |-> Err("Failed to upsert points"),
                    collection |-> UpsertPoints(collection, Pick(points, S))] :
                      S \in SUBSET valid}

\* An order-preserving image of the cosine similarity of the server:
\* sign(a.b) (a.b)^2 / (|a|^2 |b|^2), and 0 for a vector of magnitude 0.
CosineScore(a, b) ==
    LET dot == SumOver([i \in 1..Len(a) |-> a[i] * b[i]], 1..Len(a))
        ma == SumOver([i \in 1..Len(a) |-> a[i] * a[i]], 1..Len(a))
        mb == SumOver([i \in 1..Len(b) |-> b[i] * b[i]], 1..Len(b))
    IN  IF ma = 0 \/ mb = 0 THEN Score(0, 1)
        ELSE Score((IF dot < 0 THEN 0 - dot * dot ELSE dot * dot), ma * mb)

\* The payload entries QdrantStore::search returns as metadata.
PayloadMetadata(payload) ==
    [k \in (DOMAIN payload) \ {"content", "id"} |-> payload[k]]

\* QdrantStore::search: the scored points of the server as SearchResults.
QdrantSearchResult(point, q) ==
    [document |-> [id |-> IF "id" \in DOMAIN point.payload
                          THEN point.payload["id"] ELSE << >>,
                   content |-> IF "content" \in DOMAIN point.payload
                               THEN point.payload["content"] ELSE << >>,
                   embedding |-> << >>,
                   metadata |-> PayloadMetadata(point.payload)],
     score |-> CosineScore(q, point.vector)]

QdrantSearch(q) ==
    IF Len(q) # vector_size THEN {Err("Failed to search points")}
    ELSE LET scores == [i \in 1..Len(collection) |->
                           CosineScore(q, collection[i].vector)]
         IN  {Ok([i \in 1..Len(r) |->
                     QdrantSearchResult(collection[r[i]], q)]) :
                 r \in NearestOrders(scores, Len(collection), top_k)}

\* QdrantStore::remove_by_source: the points whose payload has a source
\* that matches are deleted by point id.
QdrantRemoveBySource(source_path) ==
    LET normalized_path == ReplaceBackslash(source_path)
        hit(point) ==
            /\ "source" \in DOMAIN point.payload
            /\ SourceMatches(ReplaceBackslash(point.payload["source"]),
                             normalized_path)
        hits == SelectSeq(collection, hit)
        points_to_delete == {hits[i].id : i \in 1..Len(hits)}
    IN  [ret |-> Ok(Len(hits)),
         collection |-> SelectSeq(collection,
                            LAMBDA point : point.id \notin points_to_delete)]

\* ---- the store behind Arc<dyn VectorStore> ----

\* VectorStore::count.
StoreCount(tbl, coll) ==
    IF storage_mode = "embedded" THEN Len(tbl) ELSE Len(coll)

\* VectorStore::add: what it may return and leave in the store.
StoreAdd(documents) ==
    IF storage_mode = "embedded"
    THEN {[ret |-> LanceAdd(documents).ret,
           table |-> LanceAdd(documents).table, collection |-> collection]}
    ELSE {[ret |-> o.ret, table |-> table, collection |-> o.collection] :
             o \in QdrantAdd(documents)}

\* VectorStore::search: what it may return.
StoreSearch(q) ==
    IF storage_mode = "embedded" THEN LanceSearch(q) ELSE QdrantSearch(q)

\* VectorStore::remove_by_source: what it returns and leaves in the store.
StoreRemoveBySource(source_path) ==
    IF storage_mode = "embedded"
    THEN [ret |-> LanceRemoveBySource(source_path).ret,
          table |-> LanceRemoveBySource(source_path).table,
          collection |-> collection]
    ELSE [ret |-> QdrantRemoveBySource(source_path).ret,
          table |-> table,
          collection |-> QdrantRemoveBySource(source_path).collection]

\* The record of a call of the store.
StoreCall(op, arg, ret) ==
    [op |-> op, arg |-> arg, ret |-> ret,
     before |-> [table |-> table, collection |-> collection]]

\* store.add(documents), called through the trait.
Add(documents) ==
    /\ Len(table) + Len(documents) <= MaxRows
    /\ \E o \in StoreAdd(documents) :
          /\ table' = o.table
          /\ collection' = o.collection
          /\ storeLast' = StoreCall("add", documents, o.ret)
    /\ UNCHANGED <<storage_mode, vector_size, top_k, nonStoreVars>>

\* store.search(query_embedding).
Search(query_embedding) ==
    /\ \E ret \in StoreSearch(query_embedding) :
          storeLast' = StoreCall("search", query_embedding, ret)
    /\ UNCHANGED <<storage_mode, vector_size, top_k, table, collection,
                   nonStoreVars>>

\* store.count().
Count ==
    /\ storeLast' = StoreCall("count", None, Ok(StoreCount(table, collection)))
    /\ UNCHANGED <<storage_mode, vector_size, top_k, table, collection,
                   nonStoreVars>>

\* store.clear(): the table or the collection is dropped and recreated.
Clear ==
    /\ table' = << >>
    /\ collection' = << >>
    /\ storeLast' = StoreCall("clear", None, Ok(Unit))
    /\ UNCHANGED <<storage_mode, vector_size, top_k, nonStoreVars>>

\* store.remove_by_source(source_path).
RemoveBySource(source_path) ==
    /\ LET o == StoreRemoveBySource(source_path)
       IN  /\ table' = o.table
           /\ collection' = o.collection
           /\ storeLast' = StoreCall("remove_by_source", source_path, o.ret)
    /\ UNCHANGED <<storage_mode, vector_size, top_k, nonStoreVars>>

(***************************************************************************)
(* rag/mod.rs: RagEngine                                                   *)
(***************************************************************************)

Digits == <<"0", "1", "2", "3", "4", "5", "6", "7", "8", "9">>

RECURSIVE to_string(_)
\* usize::to_string: the decimal digits of n.
to_string(n) ==
    IF n < 10 THEN <<Digits[n + 1]>>
    ELSE to_string(n \div 10) \o <<Digits[(n % 10) + 1]>>

\* The document process_batch and index_file build of chunk i of the file
\* at path: id {path}_chunk_{i}, metadata source and chunk.
ChunkDocument(path, i, chunk, embedding) ==
    with_metadata(
        with_metadata(Document(path \o <<"_chunk_">> \o to_string(i), chunk,
                               embedding),
                      "source", path),
        "chunk", to_string(i))

\* The files of the directory d.
FilePaths == {<<"d", "/", "f">>, <<"d", "/", "g">>}

\* ---- rag/indexer.rs: collect_files ----
\*
\* A path is a sequence of tokens, "/" between its components; a name is
\* the tokens of a component, "." among them. A directory tree (world) is
\* the listing read_dir gives of each directory, entry by entry, an entry
\* being a path or an I/O error of next_entry; the directories read_dir
\* fails on; and the content read_to_string gives of each file, None for
\* a file it fails on (unreadable, or no UTF-8).

\* The position of the first separator of the path, Len(path) + 1 if none.
FirstSeparator(path) ==
    IF \E i \in 1..Len(path) : path[i] = "/"
    THEN CHOOSE i \in 1..Len(path) :
            /\ path[i] = "/"
            /\ \A j \in 1..(i - 1) : path[j] # "/"
    ELSE Len(path) + 1

RECURSIVE Components(_)
\* Path::components: the names of the path, first to last.
Components(path) ==
    IF path = << >> THEN << >>
    ELSE LET i == FirstSeparator(path)
         IN  (IF i > 1 THEN <<SubSeq(path, 1, i - 1)>> ELSE << >>)
                \o (IF i > Len(path) THEN << >>
                    ELSE Components(SubSeq(path, i + 1, Len(path))))

\* str::contains.
StrContains(name, pattern) ==
    \E i \in 0..(Len(name) - Len(pattern)) :
        SubSeq(name, i + 1, i + Len(pattern)) = pattern

\* indexer.rs, should_exclude: a component of the path contains a pattern.
should_exclude(path, exclude_patterns) ==
    \E c \in 1..Len(Components(path)), p \in 1..Len(exclude_patterns) :
        StrContains(Components(path)[c], exclude_patterns[p])

\* Path::extension: what follows the last "." of the file name, a "." that
\* starts the name apart.
Extension(path) ==
    LET name == Components(path)[Len(Components(path))]
        dots == {i \in 2..Len(name) : name[i] = "."}
    IN  IF dots = {} THEN None
        ELSE Some(SubSeq(name,
                         (CHOOSE i \in dots : \A j \in dots : j <= i) + 1,
                         Len(name)))

\* indexer.rs, is_indexable: no extension is configured, or the extension
\* of the path is one of those configured.
is_indexable(path, extensions) ==
    IF extensions = << >> THEN TRUE
    ELSE /\ Extension(path) # None
         /\ \E i \in 1..Len(extensions) :
               extensions[i] = Extension(path).some

RECURSIVE collect_files_recursive(_, _, _, _)
RECURSIVE CollectEntries(_, _, _, _)
\* The while loop of collect_files_recursive over the entries that
\* remain: an error of next_entry returns, an excluded path is skipped, a
\* directory is walked and its error returned, a file that is indexable
\* and can be read is pushed.
CollectEntries(w, entries, acc, config) ==
    IF entries = << >> THEN Ok(acc)
    ELSE IF IsErr(Head(entries)) THEN Head(entries)
    ELSE LET path == Head(entries).ok
         IN  IF should_exclude(path, config.exclude_patterns)
             THEN CollectEntries(w, Tail(entries), acc, config)
             ELSE IF path \in DOMAIN w.entries
             THEN LET below == collect_files_recursive(w, path, acc, config)
                  IN  IF IsErr(below) THEN below
                      ELSE CollectEntries(w, Tail(entries), below.ok, config)
             ELSE IF is_indexable(path, config.extensions)
                     /\ w.content[path] # None
             THEN CollectEntries(w, Tail(entries),
                      Append(acc, [path |-> path,
                                   content |-> w.content[path].some]),
                      config)
             ELSE CollectEntries(w, Tail(entries), acc, config)

\* collect_files_recursive(dir, files, config): Ok(files) after the walk,
\* or the error of read_dir or of the walk of a directory below.
collect_files_recursive(w, dir, acc, config) ==
    IF dir \notin DOMAIN w.entries \/ dir \in w.unlistable
    THEN Err("io error")
    ELSE CollectEntries(w, w.entries[dir], acc, config)

\* indexer.rs, collect_files(dir_path, config) in the tree w.
CollectFiles(w, dir_path, config) ==
    collect_files_recursive(w, dir_path, << >>, config)

\* The tree RagEngine indexes in the model: the directory d with the files
\* of dir_order, which can all be read.
FlatWorld ==
    [entries |-> [dir \in {<<"d">>} |->
                     [i \in 1..Len(dir_order) |-> Ok(dir_order[i])]],
     unlistable |-> {},
     content |-> [path \in FilePaths |-> Some(fs[path])]]

\* collect_files(dir_path) as index_directory calls it on that tree: no
\* extension is configured and no exclude pattern matches a path of it.
collect_files(dir_path) ==
    CollectFiles(FlatWorld, dir_path,
                 [extensions |-> << >>, exclude_patterns |-> << >>]).ok

\* collect_files(dir_path, config) is called and returns.
CollectFilesCall(dir_path) ==
    /\ walked = None
    /\ walked' = Some(CollectFiles(world, dir_path, indexer_config))
    /\ UNCHANGED <<world, indexer_config, regVars, chatVars, chunkVars,
                   storeVars, ragVars, ptyVars, handlerVars, auxVars>>

\* No directory is walked.
WalkIdle ==
    /\ world = [entries |-> << >>, unlistable |-> {}, content |-> << >>]
    /\ indexer_config = [extensions |-> << >>, exclude_patterns |-> << >>]
    /\ walked = None

(***************************************************************************)
(* config.rs: Config::load, Config::load_or_default                        *)
(***************************************************************************)

\* A key of the document whose value has not the type of the field.
Malformed == [malformed |-> TRUE]

\* The documents config.yaml may hold: the text is YAML or not; of its
\* keys, system_prompt stands for the fields without a serde default,
\* top_k for those with one, permission for the skipped field. A key is
\* absent (None), of the wrong type, or holds a value.
ConfigDocs ==
    {[yaml_ok |-> y, system_prompt |-> p, top_k |-> k, permission |-> q] :
        y \in BOOLEAN,
        p \in {None, Malformed, Some(<<"p">>)},
        k \in {None, Malformed, Some(3)},
        q \in {None, Some(NONE)}}

\* fn default_top_k.
default_top_k == 5

\* impl Default for Permission.
PermissionDefault == [read |-> TRUE, write |-> TRUE, command |-> TRUE]

\* impl Default for Config.
ConfigDefault ==
    [system_prompt |-> <<"You are a helpful AI assistant">>,
     top_k |-> default_top_k,
     permission |-> PermissionDefault]

\* serde_yaml::from_str::<Config>: a text that is not YAML, a missing
\* field without default and a value of the wrong type are errors; a
\* missing field with a default takes it; the skipped field is not read.
from_str(doc) ==
    IF ~doc.yaml_ok THEN Err("Failed to parse config")
    ELSE IF doc.system_prompt = None \/ doc.system_prompt = Malformed
    THEN Err("Failed to parse config")
    ELSE IF doc.top_k = Malformed THEN Err("Failed to parse config")
    ELSE Ok([system_prompt |-> doc.system_prompt.some,
             top_k |-> IF doc.top_k = None THEN default_top_k
                       ELSE doc.top_k.some,
             permission |-> PermissionDefault])

\* Config::load(path) of the file.
ConfigLoadOf(contents) ==
    IF contents = None THEN Err("Failed to read config file")
    ELSE LET config == from_str(contents.some)
         IN  IF IsErr(config) THEN config
             ELSE Ok([config.ok EXCEPT !.permission = PermissionDefault])

\* Result::unwrap_or_default.
unwrap_or_default(r) == IF IsOk(r) THEN r.ok ELSE ConfigDefault

\* Config::load("config.yaml") is called and returns.
ConfigLoad ==
    /\ cfgLast' = [op |-> "load", file |-> config_file,
                   ret |-> ConfigLoadOf(config_file)]
    /\ UNCHANGED <<config_file, nonConfigVars>>

\* Config::load_or_default() is called and returns the configuration.
LoadOrDefault ==
    /\ cfgLast' = [op |-> "load_or_default", file |-> config_file,
                   ret |-> Ok(unwrap_or_default(ConfigLoadOf(config_file)))]
    /\ UNCHANGED <<config_file, nonConfigVars>>

\* config.yaml is written, or removed.
WriteConfigFile(contents) ==
    /\ contents # config_file
    /\ config_file' = contents
    /\ UNCHANGED <<cfgLast, nonConfigVars>>

\* No configuration file, nothing loaded.
ConfigIdle ==
    /\ config_file = None
    /\ cfgLast = [op |-> "new", file |-> None, ret |-> None]

(***************************************************************************)
(* provider/mistralrs.rs: build_model                                      *)
(***************************************************************************)

\* The model identifiers: strings of up to MaxNameLen of these pieces.
MaxNameLen == 3

NamePieces == {"a", ":", "/", ".gguf"}

ModelNames ==
    UNION {[1..n -> NamePieces] : n \in 1..MaxNameLen}

\* str::ends_with(".gguf").
EndsWithGguf(name) == name # << >> /\ name[Len(name)] = ".gguf"

RECURSIVE SplitColon(_)
\* str::split(':').collect(): the pieces between the colons.
SplitColon(name) ==
    IF \A i \in 1..Len(name) : name[i] # ":" THEN <<name>>
    ELSE LET i == CHOOSE k \in 1..Len(name) :
                      /\ name[k] = ":"
                      /\ \A j \in 1..(k - 1) : name[j] # ":"
         IN  <<SubSeq(name, 1, i - 1)>>
                 \o SplitColon(SubSeq(name, i + 1, Len(name)))

\* The position of the last separator of the path, 0 without one.
LastSeparator(path) ==
    IF \A i \in 1..Len(path) : path[i] # "/" THEN 0
    ELSE CHOOSE k \in 1..Len(path) :
             /\ path[k] = "/"
             /\ \A j \in (k + 1)..Len(path) : path[j] # "/"

RECURSIVE StripSeparators(_)
\* The path without the separators at its end.
StripSeparators(path) ==
    IF path # << >> /\ path[Len(path)] = "/"
    THEN StripSeparators(SubSeq(path, 1, Len(path) - 1))
    ELSE path

\* Path::parent of a path that ends in a file name: the path without its
\* last component, the root for a file of the root.
PathParent(path) ==
    LET k == LastSeparator(path)
    IN  IF k = 0 THEN << >>
        ELSE IF StripSeparators(SubSeq(path, 1, k)) = << >> THEN <<"/">>
        ELSE StripSeparators(SubSeq(path, 1, k))

\* Path::file_name of a path that ends in a file name.
PathFileName(path) == SubSeq(path, LastSeparator(path) + 1, Len(path))

\* What a builder was given, for a build that succeeded.
Model(builder, id, gguf_files, callbacks, paged_attn) ==
    [builder |-> builder, id |-> id, files |-> gguf_files,
     tool_callbacks |-> callbacks, paged_attn |-> paged_attn]

\* A mutant of build_model: the local file is looked for first.
build_model_local_first(name, exists, ok) ==
    LET is_local_gguf == EndsWithGguf(name) /\ exists
        is_hf_gguf == StrContains(name, <<":">>) /\ EndsWithGguf(name)
    IN  IF is_local_gguf
        THEN IF ok
             THEN Ok(Model("GgufModelBuilder", PathParent(name),
                           <<PathFileName(name)>>, FALSE, TRUE))
             ELSE Err("Failed to load local GGUF")
        ELSE IF is_hf_gguf
        THEN LET parts == SplitColon(name)
             IN  IF Len(parts) # 2 THEN Err("Invalid GGUF format")
                 ELSE IF ok
                 THEN Ok(Model("GgufModelBuilder", parts[1], <<parts[2]>>,
                               TRUE, FALSE))
                 ELSE Err("Failed to load GGUF from HuggingFace")
        ELSE IF ok
             THEN Ok(Model("TextModelBuilder", name, << >>, TRUE, TRUE))
             ELSE Err("Failed to load model")

\* build_model with config.llm.model = name, for a file system in which
\* the path exists or not and a builder whose build succeeds or not.
build_model(name, exists, ok) ==
    LET is_local_gguf == EndsWithGguf(name) /\ exists
        is_hf_gguf == StrContains(name, <<":">>) /\ EndsWithGguf(name)
    IN  IF is_hf_gguf
        THEN LET parts == SplitColon(name)
             IN  IF Len(parts) # 2 THEN Err("Invalid GGUF format")
                 ELSE IF ok
                 THEN Ok(Model("GgufModelBuilder", parts[1], <<parts[2]>>,
                               TRUE, FALSE))
                 ELSE Err("Failed to load GGUF from HuggingFace")
        ELSE IF is_local_gguf
        THEN IF ok
             THEN Ok(Model("GgufModelBuilder", PathParent(name),
                           <<PathFileName(name)>>, FALSE, TRUE))
             ELSE Err("Failed to load local GGUF")
        ELSE IF ok
             THEN Ok(Model("TextModelBuilder", name, << >>, TRUE, TRUE))
             ELSE Err("Failed to load model")

\* MistralRsProvider::new calls build_model, which returns.
BuildModel(ok) ==
    /\ built = None
    /\ built' = Some(build_model(model_name, model_exists, ok))
    /\ UNCHANGED <<model_name, model_exists, nonBuildVars>>

\* No model is built.
BuildIdle ==
    /\ model_name = <<"a">>
    /\ model_exists = FALSE
    /\ built = None

(***************************************************************************)
(* provider/mistralrs.rs: embed and the OnceCell of the embedding model    *)
(***************************************************************************)

\* The tasks that call embed of one provider.
EmbedTasks == {1, 2}

\* embed(text) is called by a task: OnceCell::get_or_try_init finds the
\* cell initialized, or goes to acquire the permit of the cell.
EmbedCall(t) ==
    /\ embed_pc[t] = "idle"
    /\ embed_calls_left > 0
    /\ embed_calls_left' = embed_calls_left - 1
    /\ IF embedding_model # None
       THEN /\ embed_pc' = [embed_pc EXCEPT ![t] = "generating"]
            /\ embed_used' = [embed_used EXCEPT ![t] = embedding_model]
       ELSE /\ embed_pc' = [embed_pc EXCEPT ![t] = "acquire"]
            /\ embed_used' = [embed_used EXCEPT ![t] = None]
    /\ UNCHANGED <<embedding_model, init_permit, embed_ret, loads,
                   loaded_models, local_chats, nonEmbedVars>>

\* A mutant of EmbedAcquire: the closure runs without the permit.
EmbedAcquireWithoutPermit(t) ==
    /\ embed_pc[t] = "acquire"
    /\ IF embedding_model # None
       THEN /\ embed_pc' = [embed_pc EXCEPT ![t] = "generating"]
            /\ embed_used' = [embed_used EXCEPT ![t] = embedding_model]
            /\ UNCHANGED <<init_permit, loads>>
       ELSE /\ init_permit' = t
            /\ loads' = loads + 1
            /\ embed_pc' = [embed_pc EXCEPT ![t] = "loading"]
            /\ embed_used' = [embed_used EXCEPT ![t] = Some(loads + 1)]
    /\ UNCHANGED <<embedding_model, embed_ret, loaded_models, local_chats,
                   embed_calls_left, nonEmbedVars>>

\* get_or_try_init goes on: the cell was initialized meanwhile and its
\* value is taken, or the permit is free and the task takes it and starts
\* the closure, which builds the embedding model. A task waits while
\* another holds the permit.
EmbedAcquire(t) ==
    /\ embed_pc[t] = "acquire"
    /\ IF embedding_model # None
       THEN /\ embed_pc' = [embed_pc EXCEPT ![t] = "generating"]
            /\ embed_used' = [embed_used EXCEPT ![t] = embedding_model]
            /\ UNCHANGED <<init_permit, loads>>
       ELSE /\ init_permit = 0
            /\ init_permit' = t
            /\ loads' = loads + 1
            /\ embed_pc' = [embed_pc EXCEPT ![t] = "loading"]
            /\ embed_used' = [embed_used EXCEPT ![t] = Some(loads + 1)]
    /\ UNCHANGED <<embedding_model, embed_ret, loaded_models, local_chats,
                   embed_calls_left, nonEmbedVars>>

\* EmbeddingModelBuilder::build returns: the model is set in the cell, or
\* the error leaves get_or_try_init and embed, and the permit is given
\* back.
EmbedLoaded(t, ok) ==
    /\ embed_pc[t] = "loading"
    /\ init_permit' = 0
    /\ IF ok
       THEN /\ embedding_model' = embed_used[t]
            /\ loaded_models' = loaded_models \cup {embed_used[t].some}
            /\ embed_pc' = [embed_pc EXCEPT ![t] = "generating"]
            /\ UNCHANGED <<embed_used, embed_ret>>
       ELSE /\ embed_pc' = [embed_pc EXCEPT ![t] = "idle"]
            /\ embed_used' = [embed_used EXCEPT ![t] = None]
            /\ embed_ret' = [embed_ret EXCEPT
                                ![t] = Err("Failed to load embedding model")]
            /\ UNCHANGED <<embedding_model, loaded_models>>
    /\ UNCHANGED <<loads, local_chats, embed_calls_left, nonEmbedVars>>

\* generate_embedding of the model returns, and embed.
EmbedGenerate(t, ok) ==
    /\ embed_pc[t] = "generating"
    /\ embed_pc' = [embed_pc EXCEPT ![t] = "idle"]
    /\ embed_ret' = [embed_ret EXCEPT
                        ![t] = IF ok THEN Ok(<<"embedding", embed_used[t].some>>)
                               ELSE Err("Failed to generate embedding")]
    /\ UNCHANGED <<embedding_model, init_permit, embed_used, loads,
                   loaded_models, local_chats, embed_calls_left,
                   nonEmbedVars>>

\* chat of the provider is called and returns: it works with self.model.
LocalChat ==
    /\ embed_calls_left > 0
    /\ embed_calls_left' = embed_calls_left - 1
    /\ local_chats' = local_chats + 1
    /\ UNCHANGED <<embedding_model, init_permit, embed_pc, embed_used,
                   embed_ret, loads, loaded_models, nonEmbedVars>>

\* MistralRsProvider::new: embedding_model is OnceCell::new().
EmbedFresh ==
    /\ embedding_model = None
    /\ init_permit = 0
    /\ embed_pc = [t \in EmbedTasks |-> "idle"]
    /\ embed_used = [t \in EmbedTasks |-> None]
    /\ embed_ret = [t \in EmbedTasks |-> None]
    /\ loads = 0
    /\ loaded_models = {}
    /\ local_chats = 0

\* No call of embed is made.
EmbedIdle ==
    /\ EmbedFresh
    /\ embed_calls_left = 0

(***************************************************************************)
(* mcp/client.rs, mcp/transport/stdio.rs, mcp/types.rs                     *)
(***************************************************************************)

\* serde_json::Value of an id: a number or a string.
Num(n) == [num |-> n]

Str(str) == [str |-> str]

\* A line of the server: a JSON object with these keys or without them,
\* or a text that is no JSON.
McpLine(id, method, res, error) ==
    [json |-> TRUE, id |-> id, method |-> method, result |-> res,
     error |-> error]

NoJson ==
    [json |-> FALSE, id |-> None, method |-> None, result |-> None,
     error |-> None]

\* serde_json::from_str::<JsonRpcMessage>, untagged: the variants are
\* tried in their order, Request (with an id, or a Notification without)
\* for an object with a method, then Response for an object with an id
\* and a result or an error.
ParseMessage(line) ==
    IF ~line.json THEN Err("Failed to parse JSON-RPC message")
    ELSE IF line.method # None
    THEN Ok([kind |-> "Request", id |-> line.id, method |-> line.method.some])
    ELSE IF line.id # None /\ line.result # None
    THEN Ok([kind |-> "Response", id |-> line.id.some,
             result_or_error |-> [result |-> line.result.some]])
    ELSE IF line.id # None /\ line.error # None
    THEN Ok([kind |-> "Response", id |-> line.id.some,
             result_or_error |-> [error |-> line.error.some]])
    ELSE Err("Failed to parse JSON-RPC message")

\* The return of a call of request.
McpReturn(ret, line) ==
    /\ mcp_pc' = "idle"
    /\ mcp_rets' = Append(mcp_rets, [id |-> mcp_id', ret |-> ret, line |-> line])

\* request(method, params): the id is taken of next_id and the request
\* is sent; a failed write ends the call.
McpRequest(send_ok) ==
    /\ mcp_pc = "idle"
    /\ mcp_left > 0
    /\ mcp_left' = mcp_left - 1
    /\ mcp_id' = next_id
    /\ next_id' = next_id + 1
    /\ mcp_ids' = Append(mcp_ids, next_id)
    /\ IF send_ok
       THEN /\ mcp_pc' = "waiting"
            /\ UNCHANGED mcp_rets
       ELSE McpReturn(Err("Failed to write to stdin"), None)
    /\ UNCHANGED <<mcp_stdout, mcp_skipped, nonMcpVars>>

\* A mutant of McpReceive: the first response is returned, whatever its
\* id.
McpReceiveAnyResponse(read_ok) ==
    /\ mcp_pc = "waiting"
    /\ UNCHANGED <<next_id, mcp_id, mcp_ids, mcp_left, nonMcpVars>>
    /\ IF ~read_ok
       THEN /\ McpReturn(Err("Failed to read from stdout"), None)
            /\ UNCHANGED <<mcp_stdout, mcp_skipped>>
       ELSE IF mcp_stdout = << >>
       THEN /\ McpReturn(Err("EOF reached"), None)
            /\ UNCHANGED <<mcp_stdout, mcp_skipped>>
       ELSE LET line == Head(mcp_stdout)
                response == ParseMessage(line)
            IN  /\ mcp_stdout' = Tail(mcp_stdout)
                /\ IF IsErr(response)
                   THEN /\ McpReturn(response, Some(line))
                        /\ UNCHANGED mcp_skipped
                   ELSE IF response.ok.kind = "Response"
                   THEN /\ UNCHANGED mcp_skipped
                        /\ IF "result" \in DOMAIN response.ok.result_or_error
                           THEN McpReturn(
                                    Ok(response.ok.result_or_error.result),
                                    Some(line))
                           ELSE McpReturn(Err("JSON-RPC error"), Some(line))
                   ELSE /\ mcp_skipped' = Append(mcp_skipped, line)
                        /\ UNCHANGED <<mcp_pc, mcp_rets>>

\* One turn of the loop of request: transport.receive reads a line, which
\* fails, or is the end of the output, or does not parse, and the call
\* ends; the response with the id of the request ends the call with its
\* result or its error; any other message is passed.
McpReceive(read_ok) ==
    /\ mcp_pc = "waiting"
    /\ UNCHANGED <<next_id, mcp_id, mcp_ids, mcp_left, nonMcpVars>>
    /\ IF ~read_ok
       THEN /\ McpReturn(Err("Failed to read from stdout"), None)
            /\ UNCHANGED <<mcp_stdout, mcp_skipped>>
       ELSE IF mcp_stdout = << >>
       THEN /\ McpReturn(Err("EOF reached"), None)
            /\ UNCHANGED <<mcp_stdout, mcp_skipped>>
       ELSE LET line == Head(mcp_stdout)
                response == ParseMessage(line)
            IN  /\ mcp_stdout' = Tail(mcp_stdout)
                /\ IF IsErr(response)
                   THEN /\ McpReturn(response, Some(line))
                        /\ UNCHANGED mcp_skipped
                   ELSE IF /\ response.ok.kind = "Response"
                           /\ response.ok.id = Num(mcp_id)
                   THEN /\ UNCHANGED mcp_skipped
                        /\ IF "result" \in DOMAIN response.ok.result_or_error
                           THEN McpReturn(
                                    Ok(response.ok.result_or_error.result),
                                    Some(line))
                           ELSE McpReturn(Err("JSON-RPC error"), Some(line))
                   ELSE /\ mcp_skipped' = Append(mcp_skipped, line)
                        /\ UNCHANGED <<mcp_pc, mcp_rets>>

\* McpClient::new_stdio: next_id is 1.
McpFresh ==
    /\ next_id = 1
    /\ mcp_pc = "idle"
    /\ mcp_id = 0
    /\ mcp_ids = << >>
    /\ mcp_rets = << >>
    /\ mcp_skipped = << >>

\* No MCP server is talked to.
McpIdle ==
    /\ McpFresh
    /\ mcp_stdout = << >>
    /\ mcp_left = 0

(***************************************************************************)
(* pty: core/input_handler.rs, core/io_loop.rs                             *)
(***************************************************************************)

\* The keys: Ctrl-/, return, backspace, and the pieces of text typed.
CTRL_SLASH == "\\x1f"

Return == "\\r"

Backspace == "\\x7f"

TextKeys == {"/", "exit", "quit", "a", " "}

RECURSIVE TrimEnd(_)
\* str::trim_end: the white space at the end is taken off.
TrimEnd(str) ==
    IF str # << >> /\ str[Len(str)] \in {" ", "\\r", "\\n"}
    THEN TrimEnd(SubSeq(str, 1, Len(str) - 1))
    ELSE str

\* String::pop.
Pop(str) == IF str = << >> THEN str ELSE SubSeq(str, 1, Len(str) - 1)

\* The command text of a complete line in the mode.
CmdText(mode, line) ==
    IF mode = "AI"
    THEN IF line # << >> /\ line[1] = "/" THEN line
         ELSE <<"/ai ">> \o line
    ELSE line

LineComplete(cmd_text, raw_line) ==
    [action |-> "LineComplete", cmd_text |-> cmd_text, raw_line |-> raw_line]

ToggleMode == [action |-> "ToggleMode"]

CharacterInput(ch) == [action |-> "CharacterInput", ch |-> ch]

\* InputState::toggle_mode, Session::toggle_mode.
toggle_mode(mode) == IF mode = "Terminal" THEN "AI" ELSE "Terminal"

RECURSIVE ProcessChars(_, _, _)
\* The for loop of process_stdin over the characters, in the mode of the
\* state, which the loop does not change: a line end is pushed to
\* line_buffer and the line is completed and the buffers cleared; any
\* other character is handed on as CharacterInput and not buffered.
ProcessChars(state, input, actions) ==
    IF input = << >> THEN [state |-> state, actions |-> actions]
    ELSE LET ch == Head(input)
         IN  IF ch \in {"\\n", "\\r"}
             THEN LET pushed == Append(state.line_buffer, ch)
                      line == TrimEnd(pushed)
                      cleared == [state EXCEPT !.line_buffer = << >>,
                                               !.input_buffer = << >>]
                  IN  IF /\ state.mode = "AI"
                         /\ line \in {<<"/", "exit">>, <<"/", "quit">>}
                      THEN ProcessChars(cleared, Tail(input),
                                        Append(actions, ToggleMode))
                      ELSE ProcessChars(cleared, Tail(input),
                               Append(actions,
                                      LineComplete(CmdText(state.mode, line),
                                                   pushed)))
             ELSE ProcessChars(state, Tail(input),
                               Append(actions, CharacterInput(ch)))

\* InputHandler::process_stdin(buf).
process_stdin(state, buf) ==
    IF Len(buf) = 1 /\ buf[1] = CTRL_SLASH
    THEN [state |-> state, actions |-> <<ToggleMode>>]
    ELSE ProcessChars(state, buf, << >>)

\* InputHandler::handle_character(ch): in Terminal mode the character
\* goes to the shell; in AI mode a backspace takes the last character off
\* both buffers if input_buffer has one, and any other character is
\* pushed to input_buffer.
handle_character(state, ch) ==
    IF state.mode = "Terminal" THEN state
    ELSE IF ch \in {Backspace, "\\x08"}
    THEN IF state.input_buffer # << >>
         THEN [state EXCEPT !.input_buffer = Pop(state.input_buffer),
                            !.line_buffer = Pop(state.line_buffer)]
         ELSE state
    ELSE [state EXCEPT !.input_buffer = Append(state.input_buffer, ch)]

RECURSIVE HandleActions(_, _)
\* The actions of process_stdin are handled in their order: the mode is
\* toggled, a character is given to handle_character.
HandleActions(state, actions) ==
    IF actions = << >> THEN state
    ELSE LET a == Head(actions)
         IN  HandleActions(
                 IF a.action = "ToggleMode"
                 THEN [state EXCEPT !.mode = toggle_mode(state.mode)]
                 ELSE IF a.action = "CharacterInput"
                 THEN handle_character(state, a.ch)
                 ELSE state,
                 Tail(actions))

\* The longest line typed.
MaxTyped == 2

\* What the user sees of the line typed in AI mode after a key.
TypedAfter(key) ==
    IF key = Return THEN << >>
    ELSE IF key = CTRL_SLASH \/ input_mode = "Terminal" THEN typed_line
    ELSE IF key = Backspace THEN Pop(typed_line)
    ELSE Append(typed_line, key)

\* A key is typed and read alone: process_stdin, then its actions are
\* handled.
InputHandlerKey(key) ==
    /\ (key \in TextKeys /\ input_mode = "AI") => Len(typed_line) < MaxTyped
    /\ LET state == [mode |-> input_mode, line_buffer |-> line_buffer,
                     input_buffer |-> input_buffer]
           processed == process_stdin(state, <<key>>)
           after == HandleActions(processed.state, processed.actions)
       IN  /\ input_mode' = after.mode
           /\ line_buffer' = after.line_buffer
           /\ input_buffer' = after.input_buffer
           /\ inputLast' = [key |-> key, mode |-> input_mode,
                            typed |-> typed_line,
                            actions |-> processed.actions]
    /\ typed_line' = TypedAfter(key)
    /\ UNCHANGED nonInputVars

\* A key is typed and read alone by run_io_loop, which does the work of
\* process_stdin and handle_character in its own loop: in AI mode a
\* character is pushed to input_buffer and to line_buffer.
IoLoopKey(key) ==
    /\ (key \in TextKeys /\ input_mode = "AI") => Len(typed_line) < MaxTyped
    /\ typed_line' = TypedAfter(key)
    /\ UNCHANGED nonInputVars
    /\ IF key = CTRL_SLASH
       THEN /\ input_mode' = toggle_mode(input_mode)
            /\ inputLast' = [key |-> key, mode |-> input_mode,
                             typed |-> typed_line, actions |-> <<ToggleMode>>]
            /\ UNCHANGED <<line_buffer, input_buffer>>
       ELSE IF key \in {"\\n", "\\r"}
       THEN LET pushed == Append(line_buffer, key)
                line == TrimEnd(pushed)
                exits == /\ input_mode = "AI"
                         /\ line \in {<<"/", "exit">>, <<"/", "quit">>}
            IN  /\ input_mode' = IF exits THEN toggle_mode(input_mode)
                                 ELSE input_mode
                /\ line_buffer' = << >>
                /\ input_buffer' = << >>
                /\ inputLast' =
                      [key |-> key, mode |-> input_mode, typed |-> typed_line,
                       actions |->
                          IF exits THEN <<ToggleMode>>
                          ELSE <<LineComplete(CmdText(input_mode, line),
                                              pushed)>>]
       ELSE /\ inputLast' = [key |-> key, mode |-> input_mode,
                             typed |-> typed_line,
                             actions |-> <<CharacterInput(key)>>]
            /\ UNCHANGED input_mode
            /\ IF input_mode = "Terminal"
               THEN UNCHANGED <<line_buffer, input_buffer>>
               ELSE IF key \in {Backspace, "\\x08"}
               THEN IF input_buffer # << >>
                    THEN /\ input_buffer' = Pop(input_buffer)
                         /\ line_buffer' = Pop(line_buffer)
                    ELSE UNCHANGED <<line_buffer, input_buffer>>
               ELSE /\ input_buffer' = Append(input_buffer, key)
                    /\ line_buffer' = Append(line_buffer, key)

\* InputState::new, Session::new: Terminal mode and empty buffers.
InputIdle ==
    /\ input_mode = "Terminal"
    /\ line_buffer = << >>
    /\ input_buffer = << >>
    /\ typed_line = << >>
    /\ inputLast = [key |-> Return, mode |-> "Terminal", typed |-> << >>,
                    actions |-> << >>]

\* The components that are used on their own are not used.
AuxIdle ==
    /\ ConfigIdle
    /\ BuildIdle
    /\ EmbedIdle
    /\ McpIdle
    /\ InputIdle

\* Indexer::chunk_text: chunk_text with the configured size and overlap.
IndexerChunkText(content) == chunk_text(content, chunk_size, overlap)

\* The embedding the model computes of a text: the numbers of its bytes
\* "a" and of its other bytes, as a vector of the configured size.
EmbeddingOf(str) ==
    LET as == Len(SelectSeq(str, LAMBDA b : b = "a"))
    IN  [i \in 1..vector_size |->
            IF i = 1 THEN as ELSE IF i = 2 THEN Len(str) - as ELSE 0]

\* Provider::embed_batch, to which Embedder::embed_batch passes the texts:
\* embed in turn, the first failure fails the batch.
EmbedBatch(texts, ok) ==
    IF ok THEN Ok([i \in 1..Len(texts) |-> EmbeddingOf(texts[i])])
    ELSE Err("Embedder error")

\* Iterator::zip of the embeddings with chunk_metadata.drain(..), mapped
\* to documents.
ZipDocuments(embeddings, metadata) ==
    [i \in 1..Min(Len(embeddings), Len(metadata)) |->
        with_metadata(
            with_metadata(Document(metadata[i].id, metadata[i].content,
                                   embeddings[i]),
                          "source", metadata[i].source),
            "chunk", to_string(metadata[i].chunk_idx))]

\* const BATCH_SIZE.
BATCH_SIZE == 32

\* The record of a RagEngine call that returned.
RagCall(op, arg, ret, tbl, coll) ==
    [op |-> op, arg |-> arg, ret |-> ret, info |-> None,
     before |-> ragLast.after, after |-> [table |-> tbl, collection |-> coll]]

\* The record of a call of index_directory, with the files it collected.
IndexDirectoryCall(ret, tbl, coll) ==
    [RagCall("index_directory", collected.dir, ret, tbl, coll)
        EXCEPT !.info = Some(collected.files)]

\* index_directory(dir_path) is called: collect_files, then the for loop
\* over the files starts.
IndexDirectoryEnter(dir_path) ==
    /\ index_pc = "idle"
    /\ ops_left > 0
    /\ ops_left' = ops_left - 1
    /\ files' = collect_files(dir_path)
    /\ collected' = [dir |-> dir_path, files |-> collect_files(dir_path)]
    /\ indexed_count' = 0
    /\ chunk_batch' = << >>
    /\ chunk_metadata' = << >>
    /\ batch_log' = << >>
    /\ file' = None
    /\ file_chunks' = << >>
    /\ chunk_index' = 0
    /\ index_pc' = "for_file"
    /\ UNCHANGED <<envVars, storeVars, ragLast, ragPrev, chunk_size, overlap,
                   nonRagHandlerVars>>

\* index_directory(dir_path) called by another caller than the request
\* handler.
IndexDirectory(dir_path) ==
    /\ IndexDirectoryEnter(dir_path)
    /\ UNCHANGED handlerVars

\* A mutant of IndexNextFile: after the last file the function returns
\* without processing the remaining chunks.
IndexNextFileNoFlush ==
    /\ index_pc = "for_file"
    /\ IF files = << >>
       THEN /\ index_pc' = "return"
            /\ UNCHANGED <<files, file, file_chunks, chunk_index>>
       ELSE LET next == Head(files)
                next_chunks == IndexerChunkText(next.content)
            IN  /\ files' = Tail(files)
                /\ file' = Some(next)
                /\ chunk_index' = 0
                /\ IF next.content = << >> \/ next_chunks = << >>
                   THEN /\ file_chunks' = << >>
                        /\ index_pc' = "for_file"
                   ELSE /\ file_chunks' = next_chunks
                        /\ index_pc' = "for_chunk"
    /\ UNCHANGED <<envVars, storeVars, chunk_batch, chunk_metadata,
                   indexed_count, collected, batch_log, ragLast, ragPrev,
                   ops_left, chunk_size, overlap, nonRagVars>>

\* The for loop over the files: a file without content or without chunks
\* is skipped, another is chunked; after the last file the remaining
\* chunks are processed, if there are any.
IndexNextFile ==
    /\ index_pc = "for_file"
    /\ IF files = << >>
       THEN /\ index_pc' = IF chunk_batch # << >> THEN "flush" ELSE "return"
            /\ UNCHANGED <<files, file, file_chunks, chunk_index>>
       ELSE LET next == Head(files)
                next_chunks == IndexerChunkText(next.content)
            IN  /\ files' = Tail(files)
                /\ file' = Some(next)
                /\ chunk_index' = 0
                /\ IF next.content = << >> \/ next_chunks = << >>
                   THEN /\ file_chunks' = << >>
                        /\ index_pc' = "for_file"
                   ELSE /\ file_chunks' = next_chunks
                        /\ index_pc' = "for_chunk"
    /\ UNCHANGED <<envVars, storeVars, chunk_batch, chunk_metadata,
                   indexed_count, collected, batch_log, ragLast, ragPrev,
                   ops_left, chunk_size, overlap, nonRagVars>>

\* The for loop over the chunks of the file: the chunk is pushed with its
\* metadata and a full batch is processed; after the last chunk the file
\* is counted.
IndexPushChunk ==
    /\ index_pc = "for_chunk"
    /\ IF chunk_index = Len(file_chunks)
       THEN /\ indexed_count' = indexed_count + 1
            /\ index_pc' = "for_file"
            /\ UNCHANGED <<chunk_batch, chunk_metadata, chunk_index>>
       ELSE LET i == chunk_index
                chunk == file_chunks[i + 1]
                path == file.some.path
            IN  /\ chunk_batch' = Append(chunk_batch, chunk)
                /\ chunk_metadata' = Append(chunk_metadata,
                       [id |-> path \o <<"_chunk_">> \o to_string(i),
                        content |-> chunk, source |-> path, chunk_idx |-> i])
                /\ chunk_index' = i + 1
                /\ index_pc' = IF Len(chunk_batch) + 1 >= BATCH_SIZE
                               THEN "process" ELSE "for_chunk"
                /\ UNCHANGED indexed_count
    /\ UNCHANGED <<envVars, storeVars, files, file, file_chunks, collected,
                   batch_log, ragLast, ragPrev, ops_left, chunk_size, overlap,
                   nonRagVars>>

\* A mutant of ProcessBatch: when the embedding fails the chunks are
\* stored as documents without embedding.
ProcessBatchStoringUnembedded(ok) ==
    /\ index_pc \in {"process", "flush"}
    /\ LET embeddings == EmbedBatch(chunk_batch, ok)
           documents ==
               ZipDocuments(IF IsOk(embeddings) THEN embeddings.ok
                            ELSE [i \in 1..Len(chunk_batch) |-> << >>],
                            chunk_metadata)
           tbl == IF storage_mode = "embedded"
                  THEN table \o [i \in 1..Len(documents) |->
                                    LanceRow(documents[i])]
                  ELSE table
           coll == IF storage_mode = "embedded" THEN collection
                   ELSE UpsertPoints(collection,
                            [i \in 1..Len(documents) |->
                                QdrantPoint(documents[i])])
       IN  /\ table' = tbl
           /\ collection' = coll
           /\ batch_log' = Append(batch_log,
                  [texts |-> chunk_batch, embeddings |-> embeddings,
                   documents |-> documents,
                   ret |-> IF ok THEN Ok(Unit) ELSE embeddings,
                   before |-> [table |-> table, collection |-> collection]])
           /\ IF ok
              THEN /\ chunk_batch' = << >>
                   /\ chunk_metadata' = << >>
                   /\ index_pc' = IF index_pc = "process" THEN "for_chunk"
                                  ELSE "return"
                   /\ UNCHANGED <<ragLast, ragPrev>>
              ELSE /\ index_pc' = "idle"
                   /\ ragLast' = IndexDirectoryCall(embeddings, tbl, coll)
                   /\ ragPrev' = ragLast
                   /\ UNCHANGED <<chunk_batch, chunk_metadata>>
    /\ UNCHANGED <<envVars, storage_mode, vector_size, top_k, storeLast, files,
                   file, file_chunks, chunk_index, indexed_count, collected,
                   ops_left, chunk_size, overlap, nonRagVars>>

\* process_batch, called with a full batch or with the remaining chunks:
\* embed_batch, whose failure is returned by index_directory; then the
\* documents are built and added with one store.add, whose failure is
\* returned too; then chunk_batch is cleared.
ProcessBatch(ok) ==
    /\ index_pc \in {"process", "flush"}
    /\ LET embeddings == EmbedBatch(chunk_batch, ok)
       IN  IF IsErr(embeddings)
           THEN /\ batch_log' = Append(batch_log,
                       [texts |-> chunk_batch, embeddings |-> embeddings,
                        documents |-> << >>, ret |-> embeddings,
                        before |-> [table |-> table,
                                    collection |-> collection]])
                /\ index_pc' = "idle"
                /\ ragLast' = IndexDirectoryCall(embeddings, table, collection)
                /\ ragPrev' = ragLast
                /\ UNCHANGED <<table, collection, chunk_batch, chunk_metadata>>
           ELSE LET documents == ZipDocuments(embeddings.ok, chunk_metadata)
                IN  \E o \in StoreAdd(documents) :
                       /\ table' = o.table
                       /\ collection' = o.collection
                       /\ batch_log' = Append(batch_log,
                              [texts |-> chunk_batch,
                               embeddings |-> embeddings,
                               documents |-> documents, ret |-> o.ret,
                               before |-> [table |-> table,
                                           collection |-> collection]])
                       /\ chunk_metadata' = << >>
                       /\ IF IsErr(o.ret)
                          THEN /\ index_pc' = "idle"
                               /\ ragLast' =
                                      IndexDirectoryCall(
                                          Err("Failed to retrieve context"),
                                          o.table, o.collection)
                               /\ ragPrev' = ragLast
                               /\ UNCHANGED chunk_batch
                          ELSE /\ chunk_batch' = << >>
                               /\ index_pc' = IF index_pc = "process"
                                              THEN "for_chunk" ELSE "return"
                               /\ UNCHANGED <<ragLast, ragPrev>>
    /\ UNCHANGED <<envVars, storage_mode, vector_size, top_k, storeLast, files,
                   file, file_chunks, chunk_index, indexed_count, collected,
                   ops_left, chunk_size, overlap, nonRagVars>>

\* index_directory returns Ok(indexed_count).
IndexReturn ==
    /\ index_pc = "return"
    /\ index_pc' = "idle"
    /\ ragLast' = IndexDirectoryCall(Ok(indexed_count), table, collection)
    /\ ragPrev' = ragLast
    /\ UNCHANGED <<envVars, storeVars, files, file, file_chunks, chunk_index,
                   chunk_batch, chunk_metadata, indexed_count, collected,
                   batch_log, ops_left, chunk_size, overlap, nonRagVars>>

\* Embedder::embed of one text.
Embed(str, ok) == IF ok THEN Ok(EmbeddingOf(str)) ELSE Err("Embedder error")

\* index_file(file_path) is called: the file is read and chunked, then the
\* for loop over its chunks starts.
IndexFile(file_path) ==
    /\ index_pc = "idle"
    /\ ops_left > 0
    /\ ops_left' = ops_left - 1
    /\ file' = Some([path |-> file_path, content |-> fs[file_path]])
    /\ file_chunks' = IndexerChunkText(fs[file_path])
    /\ chunk_index' = 0
    /\ index_pc' = "index_file"
    /\ UNCHANGED <<envVars, storeVars, files, chunk_batch, chunk_metadata,
                   indexed_count, collected, batch_log, ragLast, ragPrev,
                   chunk_size, overlap, nonRagVars>>

\* The for loop of index_file: the chunk is embedded and added as a
\* document of its own, a failure of either is returned; after the last
\* chunk index_file returns Ok(chunk_count).
IndexFileChunk(ok) ==
    /\ index_pc = "index_file"
    /\ LET file_path == file.some.path
           i == chunk_index
       IN  IF i = Len(file_chunks)
           THEN /\ index_pc' = "idle"
                /\ ragLast' =
                       [RagCall("index_file", file_path, Ok(Len(file_chunks)),
                                table, collection)
                           EXCEPT !.info = Some(<<file.some>>)]
                /\ ragPrev' = ragLast
                /\ UNCHANGED <<table, collection, chunk_index>>
           ELSE LET embedding == Embed(file_chunks[i + 1], ok)
                IN  IF IsErr(embedding)
                    THEN /\ index_pc' = "idle"
                         /\ ragLast' = RagCall("index_file", file_path,
                                               embedding, table, collection)
                         /\ ragPrev' = ragLast
                         /\ UNCHANGED <<table, collection, chunk_index>>
                    ELSE \E o \in StoreAdd(<<ChunkDocument(file_path, i,
                                 file_chunks[i + 1], embedding.ok)>>) :
                            /\ table' = o.table
                            /\ collection' = o.collection
                            /\ IF IsErr(o.ret)
                               THEN /\ index_pc' = "idle"
                                    /\ ragLast' =
                                           RagCall("index_file", file_path,
                                               Err("Failed to retrieve context"),
                                               o.table, o.collection)
                                    /\ ragPrev' = ragLast
                                    /\ UNCHANGED chunk_index
                               ELSE /\ chunk_index' = i + 1
                                    /\ UNCHANGED <<index_pc, ragLast, ragPrev>>
    /\ UNCHANGED <<envVars, storage_mode, vector_size, top_k, storeLast, files,
                   file, file_chunks, chunk_batch, chunk_metadata,
                   indexed_count, collected, batch_log, ops_left, chunk_size,
                   overlap, nonRagVars>>

\* The header of a context.
ContextHeader == <<"\n\nRelevant context from your knowledge base:\n">>

\* A mutant of ContextEntry: the entries are numbered from 0.
ContextEntryFromZero(i, search_result) ==
    <<"\n[">> \o to_string(i) \o <<"] ">> \o search_result.document.content
        \o <<"\n">>

\* format!("\n[{}] {}\n", i + 1, result.document.content) for the result
\* at index i of the enumeration.
ContextEntry(i, search_result) ==
    <<"\n[">> \o to_string(i + 1) \o <<"] ">>
        \o search_result.document.content \o <<"\n">>

RECURSIVE PushEntries(_, _, _)
\* The for loop of retrieve_context over results.iter().enumerate(), from
\* index i on.
PushEntries(context, results, i) ==
    IF i >= Len(results) THEN context
    ELSE PushEntries(context \o ContextEntry(i, results[i + 1]), results, i + 1)

\* retrieve_context(query): the empty string for an empty store, without
\* embedding; otherwise the query is embedded and searched, a failure of
\* either is returned; the empty string for no result, otherwise the
\* header and one entry per result. What it may return, with whether it
\* embedded the query and what the search returned.
RetrieveContextOutcomes(query, ok) ==
    LET count == StoreCount(table, collection)
        outcome(ret, embedded, searched) ==
            [ret |-> ret, count |-> count, embedded |-> embedded,
             searched |-> searched]
    IN  IF count = 0 THEN {outcome(Ok(<< >>), FALSE, None)}
        ELSE LET query_embedding == Embed(query, ok)
             IN  IF IsErr(query_embedding)
                 THEN {outcome(query_embedding, TRUE, None)}
                 ELSE {IF IsErr(found)
                       THEN outcome(Err("Failed to retrieve context"), TRUE,
                                    Some(found))
                       ELSE outcome(IF found.ok = << >> THEN Ok(<< >>)
                                    ELSE Ok(PushEntries(ContextHeader,
                                                        found.ok, 0)),
                                    TRUE, Some(found)) :
                          found \in StoreSearch(query_embedding.ok)}

\* retrieve_context(query) is called and returns.
RetrieveContext(query, ok) ==
    /\ index_pc = "idle"
    /\ ops_left > 0
    /\ ops_left' = ops_left - 1
    /\ \E o \in RetrieveContextOutcomes(query, ok) :
          ragLast' = [RagCall("retrieve_context", query, o.ret, table,
                              collection)
                         EXCEPT !.info = Some([count |-> o.count,
                                               embedded |-> o.embedded,
                                               searched |-> o.searched])]
    /\ ragPrev' = ragLast
    /\ UNCHANGED <<envVars, storeVars, indexVars, chunk_size, overlap,
                   nonRagVars>>

\* Message::user.
User(content) == [role |-> "user", content |-> content, tool_calls |-> None]

\* A mutant of QueryStream: a failure of retrieve_context is returned by
\* query_stream.
QueryStreamReturningError(ok) ==
    /\ pc = "idle"
    /\ LET called == StoreCount(table, collection) > 0
       IN  \E o \in IF called THEN RetrieveContextOutcomes(UserMessage, ok)
                    ELSE {[ret |-> Ok(<< >>)]} :
              /\ retrieved' = IF called THEN Some(o.ret) ELSE None
              /\ IF IsErr(o.ret)
                 THEN /\ Fail("Failed to retrieve context", None)
                      /\ UNCHANGED messages
                 ELSE /\ messages' = <<User(IF o.ret.ok # << >>
                                            THEN o.ret.ok \o UserMessage
                                            ELSE UserMessage)>>
                      /\ pc' = "request"
                      /\ UNCHANGED result
    /\ UNCHANGED <<nonChatVars, cfgVars, capVars, provVars, tool_idx,
                   chat_returned, running, exec_log, chat_calls, events>>

\* query_stream is called: if rag.count() is above 0 the context is what
\* retrieve_context returns, or the empty string if it fails, otherwise
\* the empty string; messages starts as the user's message, after the
\* context if there is one.
QueryStream(ok) ==
    /\ pc = "idle"
    /\ LET called == StoreCount(table, collection) > 0
       IN  \E o \in IF called THEN RetrieveContextOutcomes(UserMessage, ok)
                    ELSE {[ret |-> Ok(<< >>)]} :
              LET context == IF IsOk(o.ret) THEN o.ret.ok ELSE << >>
                  enhanced_message == IF context # << >>
                                      THEN context \o UserMessage
                                      ELSE UserMessage
              IN  /\ retrieved' = IF called THEN Some(o.ret) ELSE None
                  /\ messages' = <<User(enhanced_message)>>
    /\ pc' = "request"
    /\ UNCHANGED <<nonChatVars, cfgVars, capVars, provVars, tool_idx, result,
                   chat_returned, running, exec_log, chat_calls, events>>

\* A file of the directory is rewritten between two calls.
WriteFile(path, content) ==
    /\ index_pc = "idle"
    /\ ops_left > 0
    /\ ops_left' = ops_left - 1
    /\ fs[path] # content
    /\ fs' = [fs EXCEPT ![path] = content]
    /\ UNCHANGED <<dir_order, storeVars, indexVars, ragLast, ragPrev,
                   chunk_size, overlap, nonRagVars>>

(***************************************************************************)
(* rag/mod.rs: add_knowledge; server/handler.rs: RequestHandler            *)
(***************************************************************************)

\* add_knowledge(content, source): what it returns and leaves in the store.
\* The id of the document is {source}_{count} with the count of the store.
AddKnowledge(content, source, ok) ==
    LET embedding == Embed(content, ok)
    IN  IF IsErr(embedding)
        THEN {[ret |-> embedding, table |-> table, collection |-> collection]}
        ELSE LET count == StoreCount(table, collection)
                 id == source \o <<"_">> \o to_string(count)
                 document == with_metadata(
                                 Document(id, content, embedding.ok),
                                 "source", source)
             IN  {[ret |-> IF IsErr(o.ret)
                           THEN Err("Failed to retrieve context")
                           ELSE Ok(Unit),
                   table |-> o.table, collection |-> o.collection] :
                     o \in StoreAdd(<<document>>)}

\* StreamChunk::chunk, StreamChunk::done, StreamChunk::error.
StreamChunk(type, content, error) ==
    [type |-> type, content |-> content, error |-> error]

\* Config.system_prompt.
SystemPrompt == <<"s">>

\* RequestHandler::build_messages.
build_messages(req) ==
    <<[role |-> "system", content |-> SystemPrompt, tool_calls |-> None]>>
        \o (IF req.history = None THEN << >>
            ELSE [i \in 1..Len(req.history.some) |->
                     [role |-> "user",
                      content |-> req.history.some[i].content,
                      tool_calls |-> None]])
        \o <<User(req.content)>>

RECURSIVE ChatChunks(_)
\* The callback of handle_chat applied to the responses of the provider
\* in turn: the message content of each response that has one.
ChatChunks(responses) ==
    IF responses = << >> THEN << >>
    ELSE (IF Head(responses).message.content # << >>
          THEN <<Head(responses).message.content>> ELSE << >>)
            \o ChatChunks(Tail(responses))

RECURSIVE Concat(_)
\* The concatenation of a sequence of strings (String::push_str of each in
\* turn).
Concat(strs) ==
    IF strs = << >> THEN << >> ELSE Head(strs) \o Concat(Tail(strs))

\* A mutant of HandleChat: the done record carries the message content of
\* the last response instead of full_response.
HandleChatDoneIsLast(req, responses, ok) ==
    /\ handler_pc = "idle"
    /\ req.request_type \in {"chat", "edit"}
    /\ ops_left > 0
    /\ ops_left' = ops_left - 1
    /\ request' = Some(req)
    /\ written' = << >>
    /\ writer_pc' = "writing"
    /\ handled' = Some([called |-> "Provider::chat",
                        chat_request |-> Some([messages |-> build_messages(req),
                                               tools |-> None])])
    /\ sent' = [i \in 1..Len(ChatChunks(responses)) |->
                   StreamChunk("chunk", ChatChunks(responses)[i], None)]
                \o <<IF ok
                     THEN StreamChunk("done",
                              IF responses = << >> THEN << >>
                              ELSE responses[Len(responses)].message.content,
                              None)
                     ELSE StreamChunk("error", << >>,
                                      Some(<<"provider error">>))>>
    /\ UNCHANGED <<handler_pc, envVars, indexVars, ragLast, ragPrev, storeVars,
                   chunk_size, overlap, nonRagHandlerVars>>

\* handle, arm Chat | Edit, and handle_chat: the messages are built from
\* the request, Provider::chat is called with them and no tools, each
\* response with a message content is sent as a chunk, and the call's
\* result as done or error.
HandleChat(req, responses, ok) ==
    /\ handler_pc = "idle"
    /\ req.request_type \in {"chat", "edit"}
    /\ ops_left > 0
    /\ ops_left' = ops_left - 1
    /\ request' = Some(req)
    /\ written' = << >>
    /\ writer_pc' = "writing"
    /\ handled' = Some([called |-> "Provider::chat",
                        chat_request |-> Some([messages |-> build_messages(req),
                                               tools |-> None])])
    /\ sent' = [i \in 1..Len(ChatChunks(responses)) |->
                   StreamChunk("chunk", ChatChunks(responses)[i], None)]
                \o <<IF ok
                     THEN StreamChunk("done", Concat(ChatChunks(responses)),
                                      None)
                     ELSE StreamChunk("error", << >>,
                                      Some(<<"provider error">>))>>
    /\ UNCHANGED <<handler_pc, envVars, indexVars, ragLast, ragPrev, storeVars,
                   chunk_size, overlap, nonRagHandlerVars>>

\* handle, arm Add, and handle_add.
HandleAdd(req, ok) ==
    /\ handler_pc = "idle"
    /\ index_pc = "idle"
    /\ req.request_type = "add"
    /\ ops_left > 0
    /\ ops_left' = ops_left - 1
    /\ request' = Some(req)
    /\ written' = << >>
    /\ writer_pc' = "writing"
    /\ handled' = Some([called |-> "RagEngine::add_knowledge",
                        chat_request |-> None])
    /\ \E o \in AddKnowledge(req.content, <<"user_input">>, ok) :
          /\ table' = o.table
          /\ collection' = o.collection
          /\ ragLast' = RagCall("add_knowledge",
                                <<req.content, <<"user_input">>>>, o.ret,
                                o.table, o.collection)
          /\ ragPrev' = ragLast
          /\ sent' = <<IF IsOk(o.ret)
                       THEN StreamChunk("done", <<"Added to knowledge base">>,
                                        None)
                       ELSE StreamChunk("error", << >>,
                                        Some(<<"Failed to add: ", o.ret.err>>))>>
    /\ UNCHANGED <<handler_pc, envVars, indexVars, storage_mode, vector_size,
                   top_k, storeLast, chunk_size, overlap, nonRagHandlerVars>>

\* handle, arm Index, and handle_index up to the call of index_directory
\* with the content of the request.
HandleIndex(req) ==
    /\ handler_pc = "idle"
    /\ req.request_type = "index"
    /\ IndexDirectoryEnter(req.content)
    /\ handler_pc' = "index"
    /\ request' = Some(req)
    /\ written' = << >>
    /\ writer_pc' = "writing"
    /\ handled' = Some([called |-> "RagEngine::index_directory",
                        chat_request |-> None])
    /\ sent' = << >>

\* handle_index after index_directory returned.
HandleIndexReturn ==
    /\ handler_pc = "index"
    /\ index_pc = "idle"
    /\ handler_pc' = "idle"
    /\ sent' = <<IF IsOk(ragLast.ret)
                 THEN StreamChunk("done",
                          <<"Indexed ">> \o to_string(ragLast.ret.ok)
                              \o <<" files from: ">> \o request.some.content,
                          None)
                 ELSE StreamChunk("error", << >>,
                          Some(<<"Failed to index: ", ragLast.ret.err>>))>>
    /\ UNCHANGED <<request, handled, written, writer_pc, ragVars, storeVars,
                   chunk_size, overlap, nonRagHandlerVars>>

\* handle, arm Stats, and handle_stats.
HandleStats(req) ==
    /\ handler_pc = "idle"
    /\ req.request_type = "stats"
    /\ ops_left > 0
    /\ ops_left' = ops_left - 1
    /\ request' = Some(req)
    /\ written' = << >>
    /\ writer_pc' = "writing"
    /\ handled' = Some([called |-> "RagEngine::count", chat_request |-> None])
    /\ sent' = <<StreamChunk("done",
                     <<"Knowledge base contains ">>
                         \o to_string(StoreCount(table, collection))
                         \o <<" documents">>, None)>>
    /\ UNCHANGED <<handler_pc, envVars, indexVars, ragLast, ragPrev, storeVars,
                   chunk_size, overlap, nonRagHandlerVars>>

\* One turn of the loop of write_chunks, which handle_connection runs
\* beside the handler: the next record of the channel is written to the
\* client as a line, or the write fails and write_chunks returns.
WriteChunk(ok) ==
    /\ writer_pc = "writing"
    /\ Len(written) < Len(sent)
    /\ IF ok
       THEN /\ written' = Append(written, sent[Len(written) + 1])
            /\ UNCHANGED writer_pc
       ELSE /\ writer_pc' = "failed"
            /\ UNCHANGED written
    /\ UNCHANGED <<handler_pc, request, handled, sent, ragVars, storeVars,
                   chunk_size, overlap, nonRagHandlerVars>>

(***************************************************************************)
(* The terminal's AI client: Command::execute and AiClient::send_request   *)
(***************************************************************************)

\* The lines a response may contain before the one that ends it, and the
\* commands typed in a session.
MaxLines == 2

MaxRounds == 2

\* Message of the client: a role and a content.
PtyMessage(role, content) == [role |-> role, content |-> content]

\* The while loop of strip_think_tags from byte i on: the tags are dropped
\* and so is every byte between an opening and a closing tag.
RECURSIVE StripLoop(_, _)
StripLoop(bytes, in_think) ==
    IF bytes = << >> THEN << >>
    ELSE IF Head(bytes) = "<think>" THEN StripLoop(Tail(bytes), TRUE)
    ELSE IF Head(bytes) = "</think>" THEN StripLoop(Tail(bytes), FALSE)
    ELSE (IF in_think THEN << >> ELSE <<Head(bytes)>>)
            \o StripLoop(Tail(bytes), in_think)

\* str::trim: leading and trailing white space removed.
RECURSIVE StrTrim(_)
StrTrim(str) ==
    IF str = << >> THEN << >>
    ELSE IF Head(str) = " " THEN StrTrim(Tail(str))
    ELSE IF str[Len(str)] = " " THEN StrTrim(SubSeq(str, 1, Len(str) - 1))
    ELSE str

\* AiClient::strip_think_tags.
strip_think_tags(str) == StrTrim(StripLoop(str, FALSE))

\* What the user types after /ai or /edit.
PtyQueries == {<<"q">>, <<"r">>}

\* The commands that reach the AI client or the history.
PtyCommands ==
    {[kind |-> k, content |-> q] : k \in {"AiChat", "AiEdit"}, q \in PtyQueries}
        \cup {[kind |-> "AiStats", content |-> << >>],
              [kind |-> "ClearHistory", content |-> << >>]}

\* The content field of a record the server writes.
PtyContents == {<< >>, <<"<think>", "t", "</think>", " ", "y">>}

\* What the client reads from the socket: the end of the stream, a read
\* error (the read timeout is one), a blank line, a line that is no
\* StreamChunk, or a StreamChunk.
PtyLines ==
    {[kind |-> k, type |-> "", content |-> << >>, error |-> None] :
        k \in {"eof", "io_error", "blank", "garbage"}}
        \cup {[kind |-> "record", type |-> t, content |-> c, error |-> None] :
                t \in {"chunk", "done"}, c \in PtyContents}
        \cup {[kind |-> "record", type |-> "status", content |-> << >>,
               error |-> None]}
        \cup {[kind |-> "record", type |-> "error", content |-> << >>,
               error |-> e] : e \in {None, Some("provider")}}

\* A mutant of ExecuteReturns: the user message is added whatever the
\* response is.
ExecuteReturnsKeepingQuery(ret) ==
    /\ pty_pc' = "idle"
    /\ ptyLast' = [cmd |-> command.cmd, ret |-> ret,
                   before |-> command.history]
    /\ history' =
          IF command.cmd.kind \in {"AiChat", "AiEdit"}
          THEN history \o <<PtyMessage("user", command.cmd.content)>>
                  \o (IF IsOk(ret) THEN <<PtyMessage("assistant", ret.ok)>>
                      ELSE << >>)
          ELSE history

\* Command::execute after AiClient::chat, edit or stats returned ret: the ?
\* returns an error, and a response is added to the history after the
\* text typed.
ExecuteReturns(ret) ==
    /\ pty_pc' = "idle"
    /\ ptyLast' = [cmd |-> command.cmd, ret |-> ret,
                   before |-> command.history]
    /\ history' =
          IF IsOk(ret) /\ command.cmd.kind \in {"AiChat", "AiEdit"}
          THEN history \o <<PtyMessage("user", command.cmd.content),
                            PtyMessage("assistant", ret.ok)>>
          ELSE history

\* Command::execute up to the first line read by send_request: the socket
\* is connected and the request written, and either may fail.
CommandExecute(cmd, outcome) ==
    /\ pty_pc = "idle"
    /\ rounds_left > 0
    /\ rounds_left' = rounds_left - 1
    /\ IF cmd.kind = "ClearHistory"
       THEN /\ history' = << >>
            /\ ptyLast' = [cmd |-> cmd, ret |-> Ok(<<"cleared">>),
                           before |-> history]
            /\ UNCHANGED <<pty_pc, command, client_result, lines_left>>
       ELSE IF outcome = "sent"
       THEN /\ pty_pc' = "reading"
            /\ command' = [cmd |-> cmd, history |-> history]
            /\ client_result' = << >>
            /\ lines_left' = MaxLines
            /\ UNCHANGED <<history, ptyLast>>
       ELSE /\ ptyLast' = [cmd |-> cmd, ret |-> Err(<<outcome>>),
                           before |-> history]
            /\ UNCHANGED <<history, pty_pc, command, client_result,
                           lines_left>>
    /\ UNCHANGED nonPtyVars

\* One turn of the for loop of send_request over the lines of the socket.
ReadLine(line) ==
    /\ pty_pc = "reading"
    /\ IF line.kind = "eof"
       THEN /\ ExecuteReturns(Ok(strip_think_tags(client_result)))
            /\ UNCHANGED <<client_result, lines_left>>
       ELSE IF line.kind \in {"io_error", "garbage"}
       THEN /\ ExecuteReturns(Err(<<line.kind>>))
            /\ UNCHANGED <<client_result, lines_left>>
       ELSE IF line.kind = "record" /\ line.type = "done"
       THEN LET final == IF line.content # << >> THEN line.content
                         ELSE client_result
            IN  /\ client_result' = final
                /\ ExecuteReturns(Ok(strip_think_tags(final)))
                /\ UNCHANGED lines_left
       ELSE IF line.kind = "record" /\ line.type = "error"
       THEN /\ ExecuteReturns(Err(<<"AI request failed",
                                    IF line.error = None THEN "Unknown error"
                                    ELSE line.error.some>>))
            /\ UNCHANGED <<client_result, lines_left>>
       ELSE /\ lines_left > 0
            /\ lines_left' = lines_left - 1
            /\ client_result' =
                  IF line.kind = "record" /\ line.type = "chunk"
                  THEN client_result \o line.content ELSE client_result
            /\ UNCHANGED <<history, pty_pc, ptyLast>>
    /\ UNCHANGED <<command, rounds_left, nonPtyVars>>

\* A terminal whose history is empty and that is not used.
PtyIdle ==
    /\ history = << >>
    /\ pty_pc = "idle"
    /\ command = [cmd |-> [kind |-> "ClearHistory", content |-> << >>],
                  history |-> << >>]
    /\ client_result = << >>
    /\ lines_left = 0
    /\ ptyLast = [cmd |-> [kind |-> "ClearHistory", content |-> << >>],
                  ret |-> Ok(<<"cleared">>), before |-> << >>]
    /\ rounds_left = 0

\* A request handler that has received no request.
HandlerIdle ==
    /\ handler_pc = "idle"
    /\ request = None
    /\ handled = None
    /\ sent = << >>
    /\ written = << >>
    /\ writer_pc = "writing"

(***************************************************************************)
(* Specifications                                                          *)
(***************************************************************************)

\* The plugins the standard library offers under the two names.
StdPlugin(name) ==
    [name |-> name,
     required |-> IF name = "read_file" THEN READ_ONLY ELSE READ_WRITE]

\* The chat variables before query_stream is called.
ChatIdle ==
    /\ pc = "idle"
    /\ retrieved = None
    /\ messages = << >>
    /\ accumulated_content = << >>
    /\ tool_calls = None
    /\ current_response = None
    /\ stream_content = << >>
    /\ final_tool_calls = None
    /\ tool_idx = 1
    /\ running = {}
    /\ result = None
    /\ on_chunk_log = << >>
    /\ cb_log = << >>
    /\ chat_returned = "no"
    /\ last_nonempty = None
    /\ exec_log = << >>
    /\ chat_calls = 0
    /\ events = 0

\* The variables of chunk_text while it is not called.
ChunkIdle ==
    /\ text = << >>
    /\ chunk_size = 1
    /\ overlap = 0
    /\ start = 0
    /\ chunks = << >>
    /\ chunk_pc = "idle"
    /\ ranges = << >>

\* A store that is not used: an empty embedded one.
StoreIdle ==
    /\ storage_mode = "embedded"
    /\ vector_size = 2
    /\ top_k = 1
    /\ table = << >>
    /\ collection = << >>
    /\ storeLast = [op |-> "new", arg |-> None, ret |-> None,
                    before |-> [table |-> << >>, collection |-> << >>]]

\* A RagEngine that is not used: empty files and no call made.
RagIdle ==
    /\ fs = [path \in FilePaths |-> << >>]
    /\ dir_order = <<<<"d", "/", "f">>, <<"d", "/", "g">>>>
    /\ index_pc = "idle"
    /\ files = << >>
    /\ file = None
    /\ file_chunks = << >>
    /\ chunk_index = 0
    /\ chunk_batch = << >>
    /\ chunk_metadata = << >>
    /\ indexed_count = 0
    /\ collected = [dir |-> << >>, files |-> << >>]
    /\ batch_log = << >>
    /\ ragLast = [op |-> "new", arg |-> None, ret |-> None, info |-> None,
                  before |-> [table |-> << >>, collection |-> << >>],
                  after |-> [table |-> << >>, collection |-> << >>]]
    /\ ragPrev = ragLast
    /\ ops_left = 0

\* The registries a ChatManager is given: read_file is registered,
\* write_file is or is not (its name is then unknown to execute).
ChatRegistries ==
    {[n \in S |-> StdPlugin(n)] :
        S \in {T \in SUBSET PluginNames : "read_file" \in T}}

\* A ChatManager before query_stream is called: a registry that granted
\* READ_WRITE and holds some of the standard plugins, a provider, and for
\* the in-process provider the callbacks build_model registered (those of
\* every plugin, or none when the model is a local GGUF file).
ChatInit ==
    /\ granted_permissions = READ_WRITE
    /\ plugins \in ChatRegistries
    /\ regLast = [op |-> "new", arg |-> None, ret |-> None, before |-> << >>]
    /\ provider \in {"mistralrs", "ollama"}
    /\ tool_callbacks \in
          IF provider = "mistralrs" THEN {DOMAIN plugins, {}} ELSE {{}}
    /\ ChatIdle
    /\ ChunkIdle
    /\ StoreIdle
    /\ RagIdle
    /\ PtyIdle
    /\ HandlerIdle
    /\ WalkIdle
    /\ AuxIdle

ChatNext ==
    \/ \E ok \in BOOLEAN : QueryStream(ok)
    \/ SendRequest
    \/ MistralCreateStream
    \/ \E choice \in BOOLEAN, content \in {None} \cup {Some(t) : t \in Contents},
          delta_tool_calls \in OptToolCalls :
          MistralChunk(choice, content, delta_tool_calls)
    \/ MistralOther
    \/ MistralFinish
    \/ \E name \in PluginNames : EngineToolCallback(name)
    \/ EngineToolCallbackReturn
    \/ OllamaSend
    \/ \E lines \in LinesOfChunk : OllamaBytes(lines)
    \/ OllamaStreamError
    \/ OllamaEnd
    \/ ToolStart
    \/ \E ok \in BOOLEAN : ToolReturn(ok)

\* The registry alone, with no ChatManager at work.
RegistryOnlyInit ==
    /\ RegistryInit
    /\ provider = "ollama"
    /\ tool_callbacks = {}
    /\ ChatIdle
    /\ ChunkIdle
    /\ StoreIdle
    /\ RagIdle
    /\ PtyIdle
    /\ HandlerIdle
    /\ WalkIdle
    /\ AuxIdle

SpecRegistry == RegistryOnlyInit /\ [][RegistryNext]_vars

SpecChat == ChatInit /\ [][ChatNext]_vars

\* No registry and no ChatManager at work.
OthersIdle ==
    /\ granted_permissions = NONE
    /\ plugins = << >>
    /\ regLast = [op |-> "new", arg |-> None, ret |-> None, before |-> << >>]
    /\ provider = "ollama"
    /\ tool_callbacks = {}
    /\ ChatIdle

\* The longest text in bytes and the largest chunk size chunk_text is
\* called with.
MaxTextLen == 6

MaxChunkSize == 4

RECURSIVE Utf8Texts(_)
\* The valid UTF-8 texts of at most n bytes.
Utf8Texts(n) ==
    {<< >>} \cup
    UNION {{c \o t : t \in Utf8Texts(n - Len(c))} :
              c \in {d \in Utf8Chars : Len(d) <= n}}

\* chunk_text(text, chunk_size, overlap) is called with a text, a chunk
\* size above 0 and an overlap below the chunk size.
ChunkInit ==
    /\ OthersIdle
    /\ StoreIdle
    /\ RagIdle
    /\ PtyIdle
    /\ HandlerIdle
    /\ WalkIdle
    /\ AuxIdle
    /\ text \in Utf8Texts(MaxTextLen)
    /\ chunk_size \in 1..MaxChunkSize
    /\ overlap \in 0..(chunk_size - 1)
    /\ start = 0
    /\ chunks = << >>
    /\ ranges = << >>
    /\ chunk_pc = "called"

ChunkNext ==
    \/ ChunkTextEnter
    \/ ChunkTextIterate
    \/ ChunkTextExit

SpecChunk == ChunkInit /\ [][ChunkNext]_vars

\* chunk_text(text, chunk_size, overlap) is called with the chunk size and
\* the overlap of a loaded configuration: any two numbers.
LoadedChunkInit ==
    /\ OthersIdle
    /\ StoreIdle
    /\ RagIdle
    /\ PtyIdle
    /\ HandlerIdle
    /\ WalkIdle
    /\ AuxIdle
    /\ text \in Utf8Texts(MaxTextLen)
    /\ chunk_size \in 0..MaxChunkSize
    /\ overlap \in 0..MaxChunkSize
    /\ start = 0
    /\ chunks = << >>
    /\ ranges = << >>
    /\ chunk_pc = "called"

\* The call runs on: the thread that executes it is scheduled.
SpecLoadedChunk ==
    LoadedChunkInit /\ [][ChunkNext]_vars /\ WF_vars(ChunkNext)

\* The sources of the documents given to the store: d/f, its sibling
\* d2/x, d\g written with the other path separator, and d/' whose file
\* name is a quote.
StorePaths ==
    {<<"d", "/", "f">>, <<"d", "2", "/", "x">>, <<"d", "\\", "g">>,
     <<"d", "/", "'">>}

\* The embedding of the chunk of each source, of the configured size 2.
StoreVector(path) ==
    IF path \in {<<"d", "/", "f">>, <<"d", "2", "/", "x">>}
    THEN <<1, 0>> ELSE <<0, 1>>

\* The documents given to add: chunk 0 of each source with its embedding,
\* and chunk 0 of d/f with an embedding of size 1.
StoreDocuments ==
    {ChunkDocument(path, 0, <<"a">>, StoreVector(path)) : path \in StorePaths}
        \cup {ChunkDocument(<<"d", "/", "f">>, 0, <<"a">>, <<1>>)}

\* The batches given to add: none, one or two documents.
StoreBatches ==
    {<< >>} \cup {<<a>> : a \in StoreDocuments}
        \cup {<<a, b>> : a \in StoreDocuments, b \in StoreDocuments}

\* The query embeddings given to search: of size 2 and of size 1.
StoreQueries == {<<1, 0>>, <<1>>}

\* The paths given to remove_by_source.
RemovePaths ==
    {<<"d">>, <<"d", "/", "f">>, <<"d", "\\", "g">>, <<"d", "2">>}

\* create_vector_store: an embedded or a remote store of vector size 2,
\* empty, with some top_k.
StoreInit ==
    /\ OthersIdle
    /\ ChunkIdle
    /\ RagIdle
    /\ PtyIdle
    /\ HandlerIdle
    /\ WalkIdle
    /\ AuxIdle
    /\ storage_mode \in {"embedded", "grpc"}
    /\ vector_size = 2
    /\ top_k \in {1, 2}
    /\ table = << >>
    /\ collection = << >>
    /\ storeLast = [op |-> "new", arg |-> None, ret |-> None,
                    before |-> [table |-> << >>, collection |-> << >>]]

StoreNext ==
    \/ \E documents \in StoreBatches : Add(documents)
    \/ \E query_embedding \in StoreQueries : Search(query_embedding)
    \/ Count
    \/ Clear
    \/ \E source_path \in RemovePaths : RemoveBySource(source_path)

SpecStore == StoreInit /\ [][StoreNext]_vars

\* The calls made of a RagEngine and the rewritings of its files.
MaxOps == 3

\* The contents of a file: none, one chunk or two.
RagContents == {<< >>, <<"a">>, <<"a", "b">>}

\* The queries of retrieve_context.
RagQueries == {<<"a">>, <<"b">>}

\* The orders in which read_dir may list the two files.
DirOrders ==
    {<<<<"d", "/", "f">>, <<"d", "/", "g">>>>,
     <<<<"d", "/", "g">>, <<"d", "/", "f">>>>}

\* Rag::new with chunks of one byte and an empty store, before any call.
RagFresh ==
    /\ OthersIdle
    /\ PtyIdle
    /\ HandlerIdle
    /\ WalkIdle
    /\ AuxIdle
    /\ text = << >>
    /\ chunk_size = 1
    /\ overlap = 0
    /\ start = 0
    /\ chunks = << >>
    /\ chunk_pc = "idle"
    /\ ranges = << >>
    /\ storage_mode \in {"embedded", "grpc"}
    /\ vector_size = 2
    /\ table = << >>
    /\ collection = << >>
    /\ storeLast = [op |-> "new", arg |-> None, ret |-> None,
                    before |-> [table |-> << >>, collection |-> << >>]]
    /\ index_pc = "idle"
    /\ files = << >>
    /\ file = None
    /\ file_chunks = << >>
    /\ chunk_index = 0
    /\ chunk_batch = << >>
    /\ chunk_metadata = << >>
    /\ indexed_count = 0
    /\ collected = [dir |-> << >>, files |-> << >>]
    /\ batch_log = << >>
    /\ ragLast = [op |-> "new", arg |-> None, ret |-> None, info |-> None,
                  before |-> [table |-> << >>, collection |-> << >>],
                  after |-> [table |-> << >>, collection |-> << >>]]
    /\ ragPrev = ragLast

\* A RagEngine over a directory of two short files, for some calls.
RagInit ==
    /\ RagFresh
    /\ top_k \in {0, 2}
    /\ dir_order = <<<<"d", "/", "f">>, <<"d", "/", "g">>>>
    /\ fs \in [FilePaths -> RagContents]
    /\ ops_left = MaxOps

RagNext ==
    \/ IndexDirectory(<<"d">>)
    \/ IndexNextFile
    \/ IndexPushChunk
    \/ \E ok \in BOOLEAN : ProcessBatch(ok)
    \/ IndexReturn
    \/ \E file_path \in FilePaths : IndexFile(file_path)
    \/ \E ok \in BOOLEAN : IndexFileChunk(ok)
    \/ \E query \in RagQueries, ok \in BOOLEAN : RetrieveContext(query, ok)
    \/ \E path \in FilePaths, content \in RagContents : WriteFile(path, content)

SpecRag == RagInit /\ [][RagNext]_vars

\* query_stream is called of a ChatManager whose knowledge base is being
\* indexed or was; the steps up to the first provider request.
QueryNext ==
    \/ IndexDirectory(<<"d">>)
    \/ IndexNextFile
    \/ IndexPushChunk
    \/ \E ok \in BOOLEAN : ProcessBatch(ok)
    \/ IndexReturn
    \/ \E ok \in BOOLEAN : QueryStream(ok)
    \/ SendRequest

SpecQuery == RagInit /\ [][QueryNext]_vars

\* A text of n bytes.
Bytes(n) == [i \in 1..n |-> "a"]

\* The contents of a file: none, two chunks, a full batch of chunks, or
\* one chunk more.
BatchContents ==
    {<< >>, <<"a", "b">>, Bytes(BATCH_SIZE), Bytes(BATCH_SIZE + 1)}

\* A RagEngine over a directory of two files, for one call of
\* index_directory.
BatchInit ==
    /\ RagFresh
    /\ top_k = 1
    /\ dir_order \in DirOrders
    /\ fs \in [FilePaths -> BatchContents]
    /\ ops_left = 1

BatchNext ==
    \/ IndexDirectory(<<"d">>)
    \/ IndexNextFile
    \/ IndexPushChunk
    \/ \E ok \in BOOLEAN : ProcessBatch(ok)
    \/ IndexReturn

SpecBatch == BatchInit /\ [][BatchNext]_vars

(***************************************************************************)
(* Properties                                                              *)
(***************************************************************************)

Capabilities == {"read", "write", "execute"}

\* Permission domination: every capability set in b is set in a.
Dominates(a, b) == \A c \in Capabilities : b[c] => a[c]

RECURSIVE AssistantCalls(_)
\* The tool calls of the assistant messages of msgs, in order.
AssistantCalls(msgs) ==
    IF msgs = << >> THEN << >>
    ELSE (IF Head(msgs).role = "assistant" /\ Head(msgs).tool_calls # None
          THEN Head(msgs).tool_calls.some ELSE << >>)
         \o AssistantCalls(Tail(msgs))

\* The names of the executions of log, in the order they started.
ExecNames(log) == [i \in 1..Len(log) |-> log[i].name]

IsManagerExec(e) == e.by = "manager"

\* The executions the tool loop of the current round started.
RoundExecs == SelectSeq(exec_log, LAMBDA e : e.by = "manager" /\ e.round = chat_calls)

\* The provider call of the round returned Ok and delivered a response.
RoundEnded == chat_returned = "ok" /\ current_response # None

\* C1: if query_stream returns Ok without a tool-call round no plugin was
\* executed during the call, and if it returns Ok after n rounds the plugin
\* executions of the call are exactly the tool calls of rounds 1..n-1, in
\* issued order, each once.
ToolCallAtomicity ==
    pc = "done" => ExecNames(exec_log) = AssistantCalls(messages)

\* C2: for a query answered in one round without tool calls, the on_chunk
\* arguments are single chunks' contents and their concatenation, in call
\* order, is the string query_stream returns.
StreamingMonotonicity ==
    (pc = "done" /\ chat_calls = 1) =>
        /\ \A i \in 1..Len(on_chunk_log) : on_chunk_log[i] \in Contents
        /\ Concat(on_chunk_log) = result.ok

\* C3: every plugin that all() or get(name) returns, after any sequence of
\* register calls, requires a permission the granted permission dominates.
PermissionSoundness ==
    /\ \A p \in all(plugins) : Dominates(granted_permissions, p.required)
    /\ \A n \in PluginNames :
          get(plugins, n) # None =>
              Dominates(granted_permissions, get(plugins, n).some.required)
    /\ (regLast.op = "get" /\ regLast.ret # None) =>
          Dominates(granted_permissions, regLast.ret.some.required)
    /\ regLast.op = "all" =>
          \A p \in regLast.ret : Dominates(granted_permissions, p.required)

\* C3 witness: a registry that does not grant everything holds a plugin
\* and has just refused another.
PermissionSoundnessWitness ==
    /\ granted_permissions = READ_ONLY
    /\ DOMAIN plugins # {}
    /\ regLast.op = "register"
    /\ ~regLast.ret

\* The tool loop is in, or has just left, a round with tool calls.
InToolRound ==
    /\ RoundEnded
    /\ tool_calls # None
    /\ pc \in {"tools", "tool_running", "request", "failed"}

\* The tool calls of the round that returned Ok.
Completed == tool_idx - 1

ToolMessage(name) ==
    [role |-> "tool", content |-> PluginOutput(name), tool_calls |-> None]

\* C4: in a round whose assistant message carries t1..tk the manager runs
\* the tool calls one at a time in that order, and the tool-role messages
\* appended directly after the assistant message are the results of the
\* calls that returned, in that order: all k when the round is over.
SequentialToolExecution ==
    InToolRound =>
        LET calls == tool_calls.some
            base == Len(messages) - Completed
            started == ExecNames(RoundExecs)
        IN  /\ Completed \in 0..Len(calls)
            /\ base >= 1
            /\ messages[base] = [role |-> "assistant",
                                 content |-> accumulated_content,
                                 tool_calls |-> tool_calls]
            /\ \A j \in 1..Completed :
                  messages[base + j] = ToolMessage(calls[j])
            /\ Len(started) \in {Completed, Completed + 1}
            /\ Len(started) <= Len(calls)
            /\ \A j \in 1..Len(started) : started[j] = calls[j]
            /\ pc = "tool_running" =>
                  /\ Len(started) = Completed + 1
                  /\ running = {[by |-> "manager", name |-> calls[tool_idx]]}
            /\ pc # "tool_running" => running = {}
            /\ pc \in {"tools", "request"} => Len(started) = Completed
            /\ pc = "request" => Completed = Len(calls)

\* C4 witness: a round with two tool calls is over, both have returned.
SequentialToolExecutionWitness ==
    /\ InToolRound
    /\ pc = "request"
    /\ Len(tool_calls.some) = 2
    /\ Completed = 2

\* C5: no plugin is executed while the provider's chat of the query is in
\* progress.
NoExecutionWhileStreaming ==
    running # {} => pc \notin {"connecting", "streaming"}

\* C6: at the end of a round the pending tool calls are those of the last
\* chunk that carried a non-empty list; a later chunk without tool calls or
\* with an empty list does not replace them.
PendingIsLastNonEmpty ==
    RoundEnded =>
        IF last_nonempty = None
        THEN tool_calls \in {None, Some(<< >>)}
        ELSE tool_calls = last_nonempty

\* C7: a round that ends without pending tool calls (none, or an empty
\* list) ends the query with the content of that round; only a non-empty
\* list leads to another round.
NoToolCallsEndsQuery ==
    /\ (RoundEnded /\ tool_calls \in {None, Some(<< >>)}) =>
          /\ pc = "done"
          /\ result = [ok |-> accumulated_content]
    /\ \A i \in 1..Len(messages) :
          messages[i].role = "assistant" =>
              messages[i].tool_calls \notin {None, Some(<< >>)}

\* A tool call of the round failed: its plugin returned an error, or
\* query_stream failed on it.
ToolFailed ==
    \/ \E i \in 1..Len(exec_log) :
          IsManagerExec(exec_log[i]) /\ exec_log[i].outcome = "err"
    \/ pc = "failed" /\ result.tool # None

\* What holds once a tool call failed.
ToolFailureState ==
    ToolFailed =>
        LET calls == tool_calls.some
            started == ExecNames(RoundExecs)
        IN  /\ pc = "failed"
            /\ result = [err |-> "Failed to execute tool",
                         tool |-> Some(calls[tool_idx])]
            /\ running = {}
            /\ Len(started) \in {Completed, tool_idx}
            /\ \A j \in 1..Len(started) : started[j] = calls[j]
            /\ \A i \in 1..Len(exec_log) :
                  (IsManagerExec(exec_log[i]) /\ exec_log[i].outcome = "err")
                      => i = Len(exec_log)
            /\ Len(messages) >= tool_idx
            /\ messages[Len(messages) - Completed].role = "assistant"
            /\ \A j \in 1..Completed :
                  messages[Len(messages) - Completed + j] = ToolMessage(calls[j])

\* C8: if executing a tool call fails, query_stream returns an error that
\* names the tool; the other tool calls of the round are not executed, no
\* tool-role message is appended for the failed call, and no provider call
\* follows.
ToolFailureAborts ==
    /\ []ToolFailureState
    /\ [][ToolFailed => UNCHANGED <<pc, result, messages, exec_log,
                                    chat_calls, running>>]_vars

\* C8 witness: the second of two tool calls failed after the first returned.
ToolFailureAbortsWitness ==
    /\ pc = "failed"
    /\ result.tool # None
    /\ tool_idx = 2
    /\ Len(tool_calls.some) = 2
    /\ exec_log[Len(exec_log)].outcome = "err"

\* C9: a Provider::chat call that returns Ok has called the callback at
\* least once, and exactly its last call carries done=true, with either
\* backend.
ChatEndsWithOneDone ==
    chat_returned = "ok" =>
        /\ Len(cb_log) >= 1
        /\ cb_log[Len(cb_log)]
        /\ \A i \in 1..(Len(cb_log) - 1) : ~cb_log[i]

\* C10: register returns true exactly when the granted permission
\* dominates the plugin's required permission; when it returns false the
\* registry is as before: the plugin is not retrievable by its name and a
\* plugin registered under that name before stays.
RegisterResult ==
    regLast.op = "register" =>
        /\ regLast.ret = Dominates(granted_permissions, regLast.arg.required)
        /\ regLast.ret => get(plugins, regLast.arg.name) = Some(regLast.arg)
        /\ ~regLast.ret =>
              /\ plugins = regLast.before
              /\ get(plugins, regLast.arg.name) # Some(regLast.arg)
              /\ get(plugins, regLast.arg.name)
                    = get(regLast.before, regLast.arg.name)

\* C10 witness: a registration is refused under a name that is taken.
RegisterResultWitness ==
    /\ regLast.op = "register"
    /\ ~regLast.ret
    /\ regLast.arg.name \in DOMAIN plugins

\* C11 as stated: execute(name, args) for a name with no registered plugin
\* fails with an UnknownTool error, runs no plugin, and leaves the registry
\* unchanged.
ExecuteUnknownTool ==
    (regLast.op = "execute" /\ regLast.arg \notin DOMAIN regLast.before) =>
        /\ IsErr(regLast.ret)
        /\ regLast.ret.err.kind = "UnknownTool"
        /\ regLast.ran = None
        /\ plugins = regLast.before

\* C11 amended: execute(name, args) for a name with no registered plugin
\* fails with the error PluginError::Other("Unknown plugin: <name>"), runs
\* no plugin, and leaves the registry unchanged.
ExecuteUnknownPlugin ==
    (regLast.op = "execute" /\ regLast.arg \notin DOMAIN regLast.before) =>
        /\ regLast.ret = Err([kind |-> "Other",
                              message |-> <<"Unknown plugin: ", regLast.arg>>])
        /\ regLast.ran = None
        /\ plugins = regLast.before

\* C11 witness: a registry that holds read_file was asked to execute
\* write_file, which it does not hold.
ExecuteUnknownPluginWitness ==
    /\ regLast.op = "execute"
    /\ regLast.arg = "write_file"
    /\ DOMAIN plugins = {"read_file"}

\* The bytes chunk k of the returned list has in common with the chunk
\* after it.
SharedBytes(k) ==
    IF ranges[k][2] > ranges[k + 1][1] THEN ranges[k][2] - ranges[k + 1][1]
    ELSE 0

\* Chunk k is as wide as the chunk size.
FullWidth(k) == ranges[k][2] - ranges[k][1] = chunk_size

\* The byte ranges recorded are those of the chunks returned.
RangesAreChunks ==
    /\ Len(ranges) = Len(chunks)
    /\ \A k \in 1..Len(chunks) :
          chunks[k] = SubSeq(text, ranges[k][1] + 1, ranges[k][2])

\* C20: for any text (multi-byte UTF-8 characters included), chunk size
\* C > 0 and overlap O with 0 <= O < C, every byte of the text lies in at
\* least one returned chunk, and two consecutive full-width chunks share
\* exactly O bytes.
ChunkReconstitution ==
    chunk_pc = "returned" =>
        /\ \A i \in 0..(Len(text) - 1) :
              \E k \in 1..Len(ranges) :
                  ranges[k][1] <= i /\ i < ranges[k][2]
        /\ \A k \in 1..(Len(ranges) - 1) :
              (FullWidth(k) /\ FullWidth(k + 1)) => SharedBytes(k) = overlap

RECURSIVE IsUtf8(_)
\* The bytes are whole characters, one after the other.
IsUtf8(str) ==
    \/ str = << >>
    \/ \E c \in Utf8Chars :
          /\ Len(c) <= Len(str)
          /\ SubSeq(str, 1, Len(c)) = c
          /\ IsUtf8(SubSeq(str, Len(c) + 1, Len(str)))

\* C21: every chunk returned by chunk_text is non-empty and begins and
\* ends on a UTF-8 code-point boundary of the text (slicing never splits a
\* character), for any text, C > 0 and O < C; a chunk that rounding makes
\* empty is discarded, not returned.
ChunksAreWholeCharacters ==
    /\ Len(ranges) = Len(chunks)
    /\ \A k \in 1..Len(chunks) :
          /\ chunks[k] # << >>
          /\ IsUtf8(chunks[k])
          /\ chunks[k] = SubSeq(text, ranges[k][1] + 1, ranges[k][2])
          /\ IsUtf8(SubSeq(text, 1, ranges[k][1]))
          /\ IsUtf8(SubSeq(text, ranges[k][2] + 1, Len(text)))

\* C21 happens: a call returned chunks of which one was cut short of the
\* chunk size inside the text, and skipped bytes whose chunk was empty.
ChunksAreWholeCharactersWitness ==
    /\ chunk_pc = "returned"
    /\ \E k \in 1..Len(ranges) :
          /\ ranges[k][2] < Len(text)
          /\ ranges[k][2] - ranges[k][1] < chunk_size
    /\ \E i \in 0..(Len(text) - 1) :
          \A k \in 1..Len(ranges) : ~(ranges[k][1] <= i /\ i < ranges[k][2])

\* The text has single-byte characters only.
SingleByte(str) == \A i \in 1..Len(str) : str[i] \in {"a", "b"}

\* C22: for a text of L single-byte characters, chunk size C > 0 and
\* overlap O with 0 <= O < C: if L = 0 the result is empty; if 0 < L <= C
\* the result is the whole text as one chunk; otherwise chunk i starts at
\* byte i*(C-O) and ends at min(i*(C-O)+C, L), and the list ends with the
\* first chunk whose end is L.
SingleByteChunks ==
    (chunk_pc = "returned" /\ SingleByte(text)) =>
        LET L == Len(text)
            C == chunk_size
            O == overlap
            End(i) == IF i * (C - O) + C <= L THEN i * (C - O) + C ELSE L
            last == CHOOSE i \in 0..L :
                        /\ End(i) = L
                        /\ \A j \in 0..(i - 1) : End(j) # L
        IN  IF L = 0 THEN chunks = << >>
            ELSE IF L <= C THEN chunks = <<text>>
            ELSE /\ Len(chunks) = last + 1
                 /\ \A i \in 0..last :
                       chunks[i + 1] = SubSeq(text, i * (C - O) + 1, End(i))

\* C22 happens: a text of both single-byte characters was returned in at
\* least three overlapping chunks.
SingleByteChunksWitness ==
    /\ chunk_pc = "returned"
    /\ SingleByte(text)
    /\ \E i, j \in 1..Len(text) : text[i] # text[j]
    /\ overlap > 0
    /\ Len(chunks) >= 3

\* C23: chunk_text terminates for every text and for every chunk_size /
\* chunk_overlap pair that a loaded configuration can contain, so indexing
\* a file never loops forever in chunking.
ChunkTextTerminates == <>(chunk_pc = "returned")

\* With an overlap below the chunk size, chunk_text terminates.
ValidChunkTextTerminates ==
    (overlap < chunk_size) => <>(chunk_pc = "returned")


\* The stored documents of a state of the store, in insertion order, each
\* with its id, its source if it has one, and its embedding.
StoredDocs(tbl, coll) ==
    IF storage_mode = "embedded"
    THEN [i \in 1..Len(tbl) |->
             [id |-> tbl[i].id, content |-> tbl[i].content,
              source |-> tbl[i].source, embedding |-> tbl[i].vector]]
    ELSE [i \in 1..Len(coll) |->
             [id |-> coll[i].payload["id"],
              content |-> coll[i].payload["content"],
              source |-> IF "source" \in DOMAIN coll[i].payload
                         THEN Some(coll[i].payload["source"]) ELSE None,
              embedding |-> coll[i].vector]]

\* C14: add(docs) succeeds only if every document of the batch has an
\* embedding of the configured length D; if any document has another
\* length the call fails and none of the batch is inserted, so after any
\* sequence of operations every document in the store has embedding
\* length D.
DimensionInvariant ==
    /\ storeLast.op = "add" =>
          LET docs == storeLast.arg
              sized == \A i \in 1..Len(docs) :
                           Len(docs[i].embedding) = vector_size
          IN  /\ IsOk(storeLast.ret) => sized
              /\ ~sized =>
                    /\ IsErr(storeLast.ret)
                    /\ table = storeLast.before.table
                    /\ collection = storeLast.before.collection
    /\ \A i \in 1..Len(StoredDocs(table, collection)) :
          Len(StoredDocs(table, collection)[i].embedding) = vector_size

\* A stored document that remove_by_source(path) is to remove.
ToRemove(doc, path) ==
    /\ doc.source # None
    /\ SourceMatches(ReplaceBackslash(doc.source.some), ReplaceBackslash(path))

\* C17: remove_by_source(P) removes every document whose normalized source
\* equals P or starts with P + "/", removes no other document (a sibling
\* path such as P + "2/x" stays), and returns exactly the number of
\* documents it removed.
RemoveBySourceBreadth ==
    storeLast.op = "remove_by_source" =>
        LET before == StoredDocs(storeLast.before.table,
                                 storeLast.before.collection)
            after == StoredDocs(table, collection)
        IN  /\ after = SelectSeq(before,
                           LAMBDA doc : ~ToRemove(doc, storeLast.arg))
            /\ storeLast.ret = Ok(Len(before) - Len(after))

\* The position at which the document of a search result was first
\* inserted into the store.
InsertionIndex(id) ==
    LET docs == StoredDocs(table, collection)
    IN  CHOOSE i \in 1..Len(docs) :
            /\ docs[i].id = id
            /\ \A j \in 1..(i - 1) : docs[j].id # id

\* C18: search returns at most top_k results, each a document currently in
\* the store, in non-increasing score order, with documents of equal score
\* in the order in which they were inserted.
SearchOrder ==
    (storeLast.op = "search" /\ IsOk(storeLast.ret)) =>
        LET results == storeLast.ret.ok
            docs == StoredDocs(table, collection)
        IN  /\ Len(results) <= top_k
            /\ \A i \in 1..Len(results) :
                  \E j \in 1..Len(docs) : docs[j].id = results[i].document.id
            /\ \A i \in 1..(Len(results) - 1) :
                  /\ ~ScoreLess(results[i].score, results[i + 1].score)
                  /\ ScoreEqual(results[i].score, results[i + 1].score) =>
                        InsertionIndex(results[i].document.id)
                            <= InsertionIndex(results[i + 1].document.id)

RECURSIVE ChunksOfFiles(_)
\* The chunks of the files that have content, file after file, each with
\* its path and its index in the file.
ChunksOfFiles(collected_files) ==
    IF collected_files = << >> THEN << >>
    ELSE LET first == Head(collected_files)
             first_chunks == chunk_text(first.content, chunk_size, overlap)
         IN  [i \in 1..Len(first_chunks) |->
                 [path |-> first.path, index |-> i - 1,
                  chunk |-> first_chunks[i]]]
             \o ChunksOfFiles(Tail(collected_files))

RECURSIVE BatchTexts(_)
\* The texts of the batches of the log, batch after batch.
BatchTexts(log) ==
    IF log = << >> THEN << >> ELSE Head(log).texts \o BatchTexts(Tail(log))

RECURSIVE BatchDocuments(_)
\* The documents of the batches of the log, batch after batch.
BatchDocuments(log) ==
    IF log = << >> THEN << >>
    ELSE Head(log).documents \o BatchDocuments(Tail(log))

\* The last call that returned is one of index_directory and no later one
\* has begun: batch_log is the log of that call.
IndexDirectoryReturned == ragLast.op = "index_directory" /\ index_pc = "idle"

\* The document is in the store, with its content and its vector.
Stored(doc) ==
    \E i \in 1..Len(StoredDocs(table, collection)) :
        LET held == StoredDocs(table, collection)[i]
        IN  /\ held.id = doc.id
            /\ held.content = doc.content
            /\ held.source = Some(doc.metadata["source"])
            /\ held.embedding = doc.embedding

\* C12: indexing the same directory twice in a row, with unchanged file
\* contents and chunk settings, leaves count() after the second run equal
\* to count() after the first, for the embedded and for the remote store.
ReindexKeepsCount ==
    (/\ ragLast.op = "index_directory" /\ IsOk(ragLast.ret)
     /\ ragPrev.op = "index_directory" /\ IsOk(ragPrev.ret)
     /\ ragLast.arg = ragPrev.arg
     /\ ragLast.info = ragPrev.info) =>
        StoreCount(ragLast.after.table, ragLast.after.collection)
            = StoreCount(ragPrev.after.table, ragPrev.after.collection)

\* The documents of a store whose source is the path, as id and content.
DocsOfSource(snapshot, path) ==
    SelectSeq([i \in 1..Len(StoredDocs(snapshot.table, snapshot.collection)) |->
                  StoredDocs(snapshot.table, snapshot.collection)[i]],
              LAMBDA doc : doc.source = Some(path))

\* C13: after a file F that was already indexed is indexed again, the
\* store holds exactly the chunks of F's current content: no document from
\* the earlier indexing of F remains, including chunks whose index is at
\* or beyond the new chunk count when F became shorter.
ReindexReplacesChunks ==
    (/\ ragLast.op \in {"index_directory", "index_file"}
     /\ IsOk(ragLast.ret)) =>
        \A k \in 1..Len(ragLast.info.some) :
            LET F == ragLast.info.some[k]
                current == ChunksOfFiles(<<F>>)
                held == DocsOfSource(ragLast.after, F.path)
            IN  (current # << >> /\ DocsOfSource(ragLast.before, F.path) # << >>)
                    => /\ Len(held) = Len(current)
                       /\ \A i \in 1..Len(current) :
                             \E j \in 1..Len(held) :
                                /\ held[j].id = F.path \o <<"_chunk_">>
                                                    \o to_string(i - 1)
                                /\ held[j].content = current[i].chunk

\* C15: if embedding a batch fails during index_directory, index_directory
\* returns an error, no document of that batch is inserted, the documents
\* of the batches committed earlier in the run stay in the store, and at
\* no time is a document with an empty embedding in the store, where
\* search or count would see it.
EmbedFailureInsertsNothing ==
    /\ \A k \in 1..Len(batch_log) :
          IsErr(batch_log[k].embeddings) =>
              /\ k = Len(batch_log)
              /\ index_pc = "idle"
              /\ IndexDirectoryReturned =>
                    /\ IsErr(ragLast.ret)
                    /\ table = batch_log[k].before.table
                    /\ collection = batch_log[k].before.collection
                    /\ \A j \in 1..(k - 1) :
                          \A d \in 1..Len(batch_log[j].documents) :
                              Stored(batch_log[j].documents[d])
    /\ \A i \in 1..Len(StoredDocs(table, collection)) :
          StoredDocs(table, collection)[i].embedding # << >>

\* C15 happens: the second batch of a run failed to embed after the first
\* was added.
EmbedFailureWitness ==
    /\ IndexDirectoryReturned
    /\ Len(batch_log) = 2
    /\ IsOk(batch_log[1].ret)
    /\ IsErr(batch_log[2].embeddings)
    /\ StoreCount(table, collection) = BATCH_SIZE

\* C16: during index_directory chunks are buffered across files and
\* embedded in batches of at most 32; when it returns Ok, every chunk of
\* every collected file that has content was inserted exactly once, with
\* that chunk's id, content, source and index and with the vector returned
\* for it at the same position of its batch, and no chunk is left in the
\* buffer or dropped.
BatchedIndexingComplete ==
    /\ Len(chunk_batch) <= BATCH_SIZE
    /\ \A k \in 1..Len(batch_log) : Len(batch_log[k].texts) <= BATCH_SIZE
    /\ (IndexDirectoryReturned /\ IsOk(ragLast.ret)) =>
          LET expected == ChunksOfFiles(ragLast.info.some)
              added == BatchDocuments(batch_log)
          IN  /\ chunk_batch = << >>
              /\ chunk_metadata = << >>
              /\ \A k \in 1..Len(batch_log) :
                    /\ batch_log[k].ret = Ok(Unit)
                    /\ Len(batch_log[k].documents) = Len(batch_log[k].texts)
                    /\ \A j \in 1..Len(batch_log[k].documents) :
                          /\ batch_log[k].documents[j].content
                                = batch_log[k].texts[j]
                          /\ batch_log[k].documents[j].embedding
                                = batch_log[k].embeddings.ok[j]
              /\ Len(added) = Len(expected)
              /\ \A i \in 1..Len(expected) :
                    /\ added[i].id = expected[i].path \o <<"_chunk_">>
                                         \o to_string(expected[i].index)
                    /\ added[i].content = expected[i].chunk
                    /\ added[i].metadata["source"] = expected[i].path
                    /\ added[i].metadata["chunk"]
                          = to_string(expected[i].index)
                    /\ Stored(added[i])

\* C16 happens: a run returned Ok after a full batch that held chunks of
\* both files and a second batch of the remaining chunks.
BatchedIndexingWitness ==
    /\ IndexDirectoryReturned
    /\ IsOk(ragLast.ret)
    /\ Len(batch_log) = 2
    /\ Len(batch_log[1].texts) = BATCH_SIZE
    /\ batch_log[1].documents[1].metadata["source"]
          # batch_log[1].documents[BATCH_SIZE].metadata["source"]
    /\ batch_log[2].texts # << >>

\* The entry of the result of rank i in a context.
NumberedEntry(i, content) ==
    <<"\n[">> \o to_string(i) \o <<"] ">> \o content \o <<"\n">>

\* C19: retrieve_context returns the empty string when the store count is
\* 0, without embedding the query, or when search returns no result;
\* otherwise it returns the fixed header followed by exactly one entry
\* "\n[i] content\n" per result, numbered from 1 in rank order.
ContextOfResults ==
    ragLast.op = "retrieve_context" =>
        LET called == ragLast.info.some
            count == StoreCount(ragLast.after.table, ragLast.after.collection)
            searched == called.searched # None /\ IsOk(called.searched.some)
        IN  /\ count = 0 =>
                  /\ ragLast.ret = Ok(<< >>)
                  /\ ~called.embedded
                  /\ called.searched = None
            /\ (searched /\ called.searched.some.ok = << >>) =>
                  ragLast.ret = Ok(<< >>)
            /\ (count # 0 /\ searched /\ called.searched.some.ok # << >>) =>
                  LET results == called.searched.some.ok
                  IN  ragLast.ret =
                          Ok(ContextHeader \o
                             Concat([i \in 1..Len(results) |->
                                 NumberedEntry(i, results[i].document.content)]))

\* C19 happens: retrieve_context returned a context of two results.
ContextOfResultsWitness ==
    /\ ragLast.op = "retrieve_context"
    /\ IsOk(ragLast.ret)
    /\ ragLast.info.some.searched # None
    /\ IsOk(ragLast.info.some.searched.some)
    /\ Len(ragLast.info.some.searched.some.ok) = 2

\* The first provider request is being built or was sent.
FirstRequest ==
    \/ pc = "request" /\ chat_calls = 0
    \/ pc = "connecting" /\ chat_calls = 1

\* C24: if the knowledge base is non-empty and retrieve_context fails,
\* query_stream does not fail: it continues with empty context, so the
\* only message of the first provider request is a user message whose
\* content is the user's text unchanged; when retrieval succeeds the
\* content is the context followed by the user's text.
QueryContinuesWithoutContext ==
    /\ (retrieved # None /\ IsErr(retrieved.some) /\ chat_calls = 0) =>
          /\ pc = "request"
          /\ result = None
    /\ (FirstRequest /\ retrieved # None /\ IsErr(retrieved.some)) =>
          messages = <<[role |-> "user", content |-> UserMessage,
                        tool_calls |-> None]>>
    /\ (FirstRequest /\ retrieved # None /\ IsOk(retrieved.some)) =>
          messages = <<[role |-> "user",
                        content |-> retrieved.some.ok \o UserMessage,
                        tool_calls |-> None]>>
    /\ (FirstRequest /\ retrieved = None) =>
          messages = <<[role |-> "user", content |-> UserMessage,
                        tool_calls |-> None]>>

\* C24 happens: retrieve_context failed on a knowledge base with documents
\* and the first request is sent.
QueryContinuesWitness ==
    /\ pc = "connecting"
    /\ retrieved # None
    /\ IsErr(retrieved.some)
    /\ StoreCount(table, collection) > 0

\* A terminal session: MaxRounds commands are typed, the server answers each
\* request with any lines.
PtyInit ==
    /\ granted_permissions = NONE
    /\ plugins = << >>
    /\ regLast = [op |-> "new", arg |-> None, ret |-> None, before |-> << >>]
    /\ provider = "ollama"
    /\ tool_callbacks = {}
    /\ ChatIdle
    /\ ChunkIdle
    /\ StoreIdle
    /\ RagIdle
    /\ HandlerIdle
    /\ WalkIdle
    /\ AuxIdle
    /\ history = << >>
    /\ pty_pc = "idle"
    /\ command = [cmd |-> [kind |-> "ClearHistory", content |-> << >>],
                  history |-> << >>]
    /\ client_result = << >>
    /\ lines_left = 0
    /\ ptyLast = [cmd |-> [kind |-> "ClearHistory", content |-> << >>],
                  ret |-> Ok(<<"cleared">>), before |-> << >>]
    /\ rounds_left = MaxRounds

PtyNext ==
    \/ \E cmd \in PtyCommands,
          outcome \in {"connect_failed", "write_failed", "sent"} :
          CommandExecute(cmd, outcome)
    \/ \E line \in PtyLines : ReadLine(line)

SpecPty == PtyInit /\ [][PtyNext]_vars

\* C25: a chat or edit round that failed, at the connection, at a line read
\* or by an error record of the server, left the history as it was when the
\* command was typed; a round that succeeded added to that history the text
\* typed as a user message and then the response as an assistant message,
\* and nothing else; the history does not change while the response is read.
FailedRoundKeepsHistory ==
    /\ pty_pc = "reading" => history = command.history
    /\ (pty_pc = "idle" /\ ptyLast.cmd.kind \in {"AiChat", "AiEdit"}) =>
          IF IsErr(ptyLast.ret)
          THEN history = ptyLast.before
          ELSE history = ptyLast.before
                  \o <<[role |-> "user", content |-> ptyLast.cmd.content],
                       [role |-> "assistant", content |-> ptyLast.ret.ok]>>

\* A round that the server ended with an error record, after a round that
\* succeeded.
FailedRoundWitness ==
    /\ pty_pc = "idle"
    /\ ptyLast.cmd.kind = "AiEdit"
    /\ ptyLast.ret = Err(<<"AI request failed", "provider">>)
    /\ Len(history) = 2
    /\ history[2].content = <<"y">>

\* query_stream with a caller that may drop its future at any suspension
\* point.
ChatDropNext ==
    \/ \E ok \in BOOLEAN : QueryStream(ok)
    \/ SendRequest
    \/ MistralCreateStream
    \/ \E choice \in BOOLEAN, content \in {None} \cup {Some(t) : t \in Contents},
          delta_tool_calls \in OptToolCalls :
          MistralChunk(choice, content, delta_tool_calls)
    \/ MistralOther
    \/ MistralFinish
    \/ \E name \in PluginNames : EngineToolCallback(name)
    \/ EngineToolCallbackReturn
    \/ OllamaSend
    \/ \E lines \in LinesOfChunk : OllamaBytes(lines)
    \/ OllamaStreamError
    \/ OllamaEnd
    \/ ToolStart
    \/ \E ok \in BOOLEAN : ToolReturn(ok)
    \/ \E engine_goes_on \in BOOLEAN : Drop(engine_goes_on)
    \/ EngineStops

SpecChatDrop == ChatInit /\ [][ChatDropNext]_vars

\* query_stream was dropped.
Dropped == pc \in {"dropped", "dropped_generating"}

\* C26: once the future of query_stream is dropped, on_chunk is not called
\* again, the messages of the conversation do not change, and no plugin
\* execution starts or runs to its end: the log of executions stays as the
\* drop left it.
DropCancelsEverything ==
    [][Dropped => /\ on_chunk_log' = on_chunk_log
                  /\ messages' = messages
                  /\ exec_log' = exec_log]_vars

\* What of C26 the code does: after the drop on_chunk is not called, the
\* messages and the result do not change, and the execution query_stream
\* itself awaited is cancelled.
DropCancelsTheFuture ==
    /\ [][Dropped => /\ on_chunk_log' = on_chunk_log
                     /\ messages' = messages
                     /\ result' = result]_vars
    /\ [](Dropped => \A e \in running : e.by = "engine")

\* An execution that runs when query_stream is dropped does not return.
DropCancelsPending ==
    [][Dropped => \A i \in 1..Len(exec_log) :
                     exec_log'[i] = exec_log[i]]_vars

\* After the drop no execution is started that query_stream's own loop
\* would start.
DropStartsNoManagerExecution ==
    [][Dropped => \A i \in 1..Len(exec_log') :
                     i > Len(exec_log) => exec_log'[i].by = "engine"]_vars

\* query_stream with what the program itself is bound to do: it goes on
\* from one step of its own to the next, and the timer of
\* tokio::time::timeout around stream_chat_request fires if the stream is
\* not created. What the backend sends, and when, is not bound by anything.
SpecChatFair ==
    /\ ChatInit
    /\ [][ChatNext]_vars
    /\ WF_vars(\E ok \in BOOLEAN : QueryStream(ok))
    /\ WF_vars(SendRequest)
    /\ WF_vars(MistralCreateStream)
    /\ WF_vars(ToolStart)

\* Provider::chat has been called and has not returned.
InChat == pc \in {"connecting", "streaming"}

\* C27: a call of Provider::chat does not wait forever: when the backend
\* sends nothing more, before the stream is created or after a chunk, the
\* call ends (with a timeout error).
StalledChatEnds == InChat ~> ~InChat

\* What of C27 the code does: with mistralrs the creation of the stream is
\* bounded by the timeout.
MistralCreationEnds ==
    (provider = "mistralrs" /\ pc = "connecting") ~> (pc # "connecting")

\* The requests of the model: chat and edit with or without a history,
\* add of a text, index of the directory d, stats.
HandlerRequests ==
    {[request_type |-> t, content |-> UserMessage, history |-> h] :
        t \in {"chat", "edit"},
        h \in {None, Some(<<[role |-> "assistant", content |-> <<"a">>]>>)}}
        \cup {[request_type |-> "add", content |-> <<"a">>, history |-> None],
              [request_type |-> "index", content |-> <<"d">>, history |-> None],
              [request_type |-> "stats", content |-> << >>, history |-> None]}

\* What a provider passes to the callback during one chat call: nothing,
\* or a chunk and the final response, which carries the whole content
\* (mistralrs) or none (ollama).
HandlerResponses ==
    {<< >>,
     <<ChatResponse(<<"a">>, FALSE, <<"a">>, None),
       ChatResponse(<< >>, TRUE, <<"a">>, None)>>,
     <<ChatResponse(<<"a">>, FALSE, <<"a">>, None),
       ChatResponse(<< >>, TRUE, << >>, None)>>}

\* A server that handles MaxOps requests, one after the other.
HandlerNext ==
    \/ \E req \in HandlerRequests, responses \in HandlerResponses,
          ok \in BOOLEAN : HandleChat(req, responses, ok)
    \/ \E req \in HandlerRequests, ok \in BOOLEAN : HandleAdd(req, ok)
    \/ \E req \in HandlerRequests : HandleIndex(req)
    \/ IndexNextFile
    \/ IndexPushChunk
    \/ \E ok \in BOOLEAN : ProcessBatch(ok)
    \/ IndexReturn
    \/ HandleIndexReturn
    \/ \E req \in HandlerRequests : HandleStats(req)

SpecHandler == RagInit /\ [][HandlerNext]_vars

\* The add, index and stats requests reach the RagEngine: add_knowledge
\* with the content and the source user_input, index_directory with the
\* content as the directory, and the count of the store.
RoutesToKnowledgeBase ==
    handled # None =>
        LET req == request.some
            h == handled.some
        IN  /\ req.request_type = "add" =>
                  /\ h.called = "RagEngine::add_knowledge"
                  /\ ragLast.op = "add_knowledge"
                  /\ ragLast.arg = <<req.content, <<"user_input">>>>
            /\ req.request_type = "index" =>
                  /\ h.called = "RagEngine::index_directory"
                  /\ collected.dir = req.content
                  /\ handler_pc = "idle" =>
                        /\ ragLast.op = "index_directory"
                        /\ ragLast.arg = req.content
            /\ req.request_type = "stats" =>
                  /\ h.called = "RagEngine::count"
                  /\ sent = <<StreamChunk("done",
                                  <<"Knowledge base contains ">>
                                      \o to_string(StoreCount(table, collection))
                                      \o <<" documents">>, None)>>

\* C28: the router hands chat and edit requests to
\* ChatManager::query_stream, so that the context of the knowledge base
\* and the registered tools are part of the provider request, add requests
\* to add_knowledge, index requests to index_directory and stats requests
\* to the count of the store.
RouterRoutes ==
    /\ RoutesToKnowledgeBase
    /\ (handled # None /\ request.some.request_type \in {"chat", "edit"}) =>
          /\ handled.some.called = "ChatManager::query_stream"
          /\ handled.some.chat_request.some.tools # None

\* What of C28 the code does for chat and edit: both take the same path,
\* which is Provider::chat with the messages of build_messages, and
\* query_stream is not called.
ChatAndEditSamePath ==
    (handled # None /\ request.some.request_type \in {"chat", "edit"}) =>
        /\ handled.some.called = "Provider::chat"
        /\ handled.some.chat_request.some.messages =
              build_messages(request.some)
        /\ pc = "idle"

\* The tree walked in the model: the root r with the files main.rs and
\* Cargo.lock, the directory src with lib.rs, and the directory tmpx with
\* the directory k and its file y.rs.
MainRs == <<"r", "/", "main", ".", "rs">>

CargoLock == <<"r", "/", "Cargo", ".", "lock">>

SrcDir == <<"r", "/", "src">>

LibRs == <<"r", "/", "src", "/", "lib", ".", "rs">>

TmpDir == <<"r", "/", "tmp", "x">>

KDir == <<"r", "/", "tmp", "x", "/", "k">>

YRs == <<"r", "/", "tmp", "x", "/", "k", "/", "y", ".", "rs">>

WalkFiles == {MainRs, CargoLock, LibRs, YRs}

\* The listings of the root (in either order) and of src (complete, or
\* ended by an error of next_entry).
WalkListings ==
    {[dir \in {<<"r">>, SrcDir, TmpDir, KDir} |->
        IF dir = <<"r">> THEN root
        ELSE IF dir = SrcDir THEN src
        ELSE IF dir = TmpDir THEN <<Ok(KDir)>> ELSE <<Ok(YRs)>>] :
        root \in {<<Ok(MainRs), Ok(SrcDir), Ok(CargoLock), Ok(TmpDir)>>,
                  <<Ok(TmpDir), Ok(CargoLock), Ok(SrcDir), Ok(MainRs)>>},
        src \in {<<Ok(LibRs)>>, <<Err("io error"), Ok(LibRs)>>}}

\* A tree whose directories below the root may fail to be listed and whose
\* files may fail to be read, and a configuration of the indexer.
WalkInit ==
    /\ granted_permissions = NONE
    /\ plugins = << >>
    /\ regLast = [op |-> "new", arg |-> None, ret |-> None, before |-> << >>]
    /\ provider = "ollama"
    /\ tool_callbacks = {}
    /\ ChatIdle
    /\ ChunkIdle
    /\ StoreIdle
    /\ RagIdle
    /\ PtyIdle
    /\ AuxIdle
    /\ handler_pc = "idle"
    /\ request = None
    /\ handled = None
    /\ sent = << >>
    /\ written = << >>
    /\ writer_pc = "writing"
    /\ world \in
          {[entries |-> l, unlistable |-> u, content |-> c] :
              l \in WalkListings,
              u \in SUBSET {SrcDir, TmpDir},
              c \in [WalkFiles -> {None, Some(<<"a">>)}]}
    /\ indexer_config \in
          {[extensions |-> e, exclude_patterns |-> x] :
              e \in {<< >>, <<<<"rs">>>>, <<<<"lock">>>>},
              x \in {<< >>, <<<<"tmp">>>>}}
    /\ walked = None

WalkNext == CollectFilesCall(<<"r">>)

SpecWalk == WalkInit /\ [][WalkNext]_vars

\* patterns.rs, binary_extensions.
binary_extensions ==
    {"png", "jpg", "jpeg", "gif", "bmp", "ico", "svg", "webp",
     "pdf", "doc", "docx", "xls", "xlsx", "ppt", "pptx",
     "zip", "tar", "gz", "bz2", "7z", "rar",
     "exe", "dll", "so", "dylib", "a", "lib",
     "mp3", "mp4", "avi", "mov", "mkv", "wav", "flac",
     "wasm", "bin", "dat", "db", "sqlite", "sqlite3",
     "lock"}

\* The directories the path lies below.
DirsAbove(path) ==
    {dir \in DOMAIN world.entries : StartsWith(path, dir \o <<"/">>)}

\* The name of a directory contains an exclude pattern.
NameExcluded(dir) ==
    \E p \in 1..Len(indexer_config.exclude_patterns) :
        StrContains(Components(dir)[Len(Components(dir))],
                    indexer_config.exclude_patterns[p])

\* A listing read to its end without an error.
Listed(dir) ==
    /\ dir \notin world.unlistable
    /\ \A i \in 1..Len(world.entries[dir]) : IsOk(world.entries[dir][i])

\* The files of the tree that can be read, are indexable and not excluded,
\* and lie below no directory other than directories that can be listed.
Collectable ==
    {path \in WalkFiles :
        /\ world.content[path] # None
        /\ is_indexable(path, indexer_config.extensions)
        /\ ~should_exclude(path, indexer_config.exclude_patterns)
        /\ \A dir \in DirsAbove(path) : Listed(dir)}

\* The paths collect_files returned.
WalkedPaths == {walked.some.ok[i].path : i \in 1..Len(walked.some.ok)}

\* C29: an I/O error on an entry, a file that cannot be read or a directory
\* below the root that cannot be listed, does not fail collect_files: it
\* returns Ok, and every file that is indexable, can be read and lies below
\* directories that can be listed is among the files returned.
IoErrorsAreSkipped ==
    walked # None =>
        /\ IsOk(walked.some)
        /\ Collectable \subseteq WalkedPaths

\* What of C29 the code does: when every directory can be listed, files
\* that cannot be read are skipped and the others are returned.
UnreadableFilesAreSkipped ==
    (walked # None /\ \A dir \in DOMAIN world.entries : Listed(dir)) =>
        /\ IsOk(walked.some)
        /\ WalkedPaths = Collectable

\* C30: collect_files returns no file whose extension is one of
\* binary_extensions, whatever extensions are configured, and no file that
\* lies below a directory whose name contains an exclude pattern.
NoBinaryNoExcluded ==
    (walked # None /\ IsOk(walked.some)) =>
        \A path \in WalkedPaths :
            /\ ~(/\ Extension(path) # None
                 /\ Len(Extension(path).some) = 1
                 /\ Extension(path).some[1] \in binary_extensions)
            /\ \A dir \in DirsAbove(path) : ~NameExcluded(dir)

\* What of C30 the code does: no file returned lies below a directory
\* whose name contains an exclude pattern.
NothingBelowExcluded ==
    (walked # None /\ IsOk(walked.some)) =>
        \A path \in WalkedPaths :
            \A dir \in DirsAbove(path) : ~NameExcluded(dir)

\* The messages a chat or edit request asks for: the system prompt, the
\* history of the request as it is, the content as a user message.
MessagesOfRequest(req) ==
    <<[role |-> "system", content |-> SystemPrompt, tool_calls |-> None]>>
        \o (IF req.history = None THEN << >>
            ELSE [i \in 1..Len(req.history.some) |->
                     [role |-> req.history.some[i].role,
                      content |-> req.history.some[i].content,
                      tool_calls |-> None]])
        \o <<User(req.content)>>

\* C38: for a chat or edit request the provider is sent the system prompt,
\* then the messages of the request's history in their order and with
\* their roles, then the content of the request as a user message.
ProviderGetsHistoryWithRoles ==
    (handled # None /\ request.some.request_type \in {"chat", "edit"}) =>
        handled.some.chat_request.some.messages
            = MessagesOfRequest(request.some)

\* What of C38 the code does: the messages sent are those, in that order
\* and with those contents, the roles of the history apart.
ProviderGetsHistoryContents ==
    (handled # None /\ request.some.request_type \in {"chat", "edit"}) =>
        LET msgs == handled.some.chat_request.some.messages
            want == MessagesOfRequest(request.some)
        IN  /\ Len(msgs) = Len(want)
            /\ \A i \in 1..Len(msgs) : msgs[i].content = want[i].content
            /\ msgs[1].role = "system"
            /\ msgs[Len(msgs)].role = "user"

\* A server that answers MaxOps requests of one knowledge base, each on a
\* connection of its own whose records write_chunks writes.
ServeInit ==
    /\ RagFresh
    /\ top_k = 2
    /\ dir_order = <<<<"d", "/", "f">>, <<"d", "/", "g">>>>
    /\ fs \in {[path \in FilePaths |-> <<"a">>],
                [path \in FilePaths |-> << >>]}
    /\ ops_left = MaxOps

ServeNext ==
    \/ \E req \in HandlerRequests, responses \in HandlerResponses,
          ok \in BOOLEAN : HandleChat(req, responses, ok)
    \/ \E req \in HandlerRequests, ok \in BOOLEAN : HandleAdd(req, ok)
    \/ \E req \in HandlerRequests : HandleIndex(req)
    \/ IndexNextFile
    \/ IndexPushChunk
    \/ \E ok \in BOOLEAN : ProcessBatch(ok)
    \/ IndexReturn
    \/ HandleIndexReturn
    \/ \E req \in HandlerRequests : HandleStats(req)
    \/ \E ok \in BOOLEAN : WriteChunk(ok)

SpecServe == ServeInit /\ [][ServeNext]_vars

\* The contents of the chunk records among the records.
ChunkContents(records) ==
    LET cs == SelectSeq(records, LAMBDA r : r.type = "chunk")
    IN  [i \in 1..Len(cs) |-> cs[i].content]

\* C36: the records sent for a request are chunk records, then, once the
\* handler is through, exactly one done or error record, which is the last;
\* the records written to the client are the first of those sent, in the
\* same order; and the done record of a chat or edit request carries the
\* concatenation of the contents of the chunk records.
ResponseIsFramed ==
    /\ \A i \in 1..(Len(sent) - 1) : sent[i].type = "chunk"
    /\ (handled # None /\ handler_pc = "idle") =>
          /\ sent # << >>
          /\ sent[Len(sent)].type \in {"done", "error"}
    /\ (handled # None /\ handler_pc # "idle") => sent = << >>
    /\ Len(written) <= Len(sent)
    /\ written = SubSeq(sent, 1, Len(written))
    /\ (/\ handled # None
        /\ request.some.request_type \in {"chat", "edit"}
        /\ sent[Len(sent)].type = "done") =>
          sent[Len(sent)].content = Concat(ChunkContents(sent))

\* A chat request answered with two chunks and a done record, all three
\* written to the client.
ResponseIsFramedWitness ==
    /\ handled # None
    /\ request.some.request_type = "chat"
    /\ Len(sent) = 3
    /\ sent[3].type = "done"
    /\ sent[3].content = <<"a", "a">>
    /\ written = sent

\* C37: when Provider::chat returns Ok and the callback was not called
\* during the call, query_stream returns the error "No response from LLM";
\* it returns Ok only after a round in which the callback was called.
NoResponseIsAnError ==
    /\ (chat_returned = "ok" /\ cb_log = << >>) =>
          /\ pc = "failed"
          /\ result = [err |-> "No response from LLM", tool |-> None]
    /\ pc = "done" => (chat_returned = "ok" /\ cb_log # << >>)

\* The stream of ollama ended without a response line, in the second round.
NoResponseWitness ==
    /\ chat_returned = "ok"
    /\ cb_log = << >>
    /\ pc = "failed"
    /\ chat_calls = 2

\* The sequence a is the beginning of the sequence b.
IsPrefixOf(a, b) == Len(a) <= Len(b) /\ a = SubSeq(b, 1, Len(a))

RECURSIVE ToolRounds(_, _)
\* The messages are tool rounds one after the other: an assistant message
\* that carries tool calls, then a tool message for each of them, in their
\* order; the last round may lack tool messages only if open is true.
ToolRounds(msgs, open) ==
    IF msgs = << >> THEN TRUE
    ELSE /\ msgs[1].role = "assistant"
         /\ msgs[1].tool_calls # None
         /\ LET n == Len(msgs[1].tool_calls.some)
                k == Min(n, Len(msgs) - 1)
            IN  /\ \A i \in 1..k :
                      /\ msgs[i + 1].role = "tool"
                      /\ msgs[i + 1].tool_calls = None
                      /\ msgs[i + 1].content =
                            PluginOutput(msgs[1].tool_calls.some[i])
                /\ k < n => open
                /\ ToolRounds(SubSeq(msgs, k + 2, Len(msgs)), open)

\* C34: during a call of query_stream no message is removed or rewritten,
\* so the messages of a provider request begin with those of the request
\* before; the messages of every request are the first user message and
\* then complete tool rounds, each one assistant message with its tool
\* calls followed by one tool message for each tool call.
MessagesOnlyGrow ==
    /\ [][pc # "idle" => IsPrefixOf(messages, messages')]_vars
    /\ [](pc # "idle" =>
            /\ messages # << >>
            /\ messages[1].role = "user"
            /\ ToolRounds(Tail(messages),
                          pc \in {"tools", "tool_running", "failed"}))

\* The second provider request, after a round of two tool calls.
MessagesOnlyGrowWitness ==
    /\ pc = "connecting"
    /\ chat_calls = 2
    /\ Len(messages) = 4
    /\ messages[2].tool_calls = Some(<<"write_file", "read_file">>)
    /\ messages[4].content = PluginOutput("read_file")

(***************************************************************************)
(* rag/mod.rs: the ids of the knowledge base                               *)
(***************************************************************************)

MaxKnowledgeOps == 4

KnowledgeSources == {<<"user_input">>, <<"n">>}

\* add_knowledge(content, source), called of the RagEngine.
AddKnowledgeCall(content, source, ok) ==
    /\ index_pc = "idle"
    /\ ops_left > 0
    /\ ops_left' = ops_left - 1
    /\ \E o \in AddKnowledge(content, source, ok) :
          /\ table' = o.table
          /\ collection' = o.collection
          /\ ragLast' = RagCall("add_knowledge", <<content, source>>, o.ret,
                                o.table, o.collection)
          /\ ragPrev' = ragLast
    /\ UNCHANGED <<envVars, indexVars, storage_mode, vector_size, top_k,
                   storeLast, chunk_size, overlap, nonRagVars>>

\* remove_from_knowledge_base(source_path): store.remove_by_source, its
\* error mapped to RagError::Retrieval.
RemoveFromKnowledgeBase(source_path) ==
    /\ index_pc = "idle"
    /\ ops_left > 0
    /\ ops_left' = ops_left - 1
    /\ LET o == StoreRemoveBySource(source_path)
       IN  /\ table' = o.table
           /\ collection' = o.collection
           /\ ragLast' = RagCall("remove_from_knowledge_base", source_path,
                                 IF IsErr(o.ret)
                                 THEN Err("Failed to retrieve context")
                                 ELSE o.ret,
                                 o.table, o.collection)
           /\ ragPrev' = ragLast
    /\ UNCHANGED <<envVars, indexVars, storage_mode, vector_size, top_k,
                   storeLast, chunk_size, overlap, nonRagVars>>

\* RagEngine::clear: store.clear.
ClearKnowledge ==
    /\ index_pc = "idle"
    /\ ops_left > 0
    /\ ops_left' = ops_left - 1
    /\ table' = << >>
    /\ collection' = << >>
    /\ ragLast' = RagCall("clear", None, Ok(Unit), << >>, << >>)
    /\ ragPrev' = ragLast
    /\ UNCHANGED <<envVars, indexVars, storage_mode, vector_size, top_k,
                   storeLast, chunk_size, overlap, nonRagVars>>

\* A knowledge base over a directory of two files, for some calls.
KnowledgeInit ==
    /\ RagFresh
    /\ top_k = 2
    /\ dir_order = <<<<"d", "/", "f">>, <<"d", "/", "g">>>>
    /\ fs = [path \in FilePaths |-> <<"a">>]
    /\ ops_left = MaxKnowledgeOps

KnowledgeNext ==
    \/ \E content \in {<<"a">>, <<"b">>}, source \in KnowledgeSources,
          ok \in BOOLEAN : AddKnowledgeCall(content, source, ok)
    \/ \E source_path \in KnowledgeSources \cup {<<"d">>} :
          RemoveFromKnowledgeBase(source_path)
    \/ ClearKnowledge
    \/ IndexDirectory(<<"d">>)
    \/ IndexNextFile
    \/ IndexPushChunk
    \/ \E ok \in BOOLEAN : ProcessBatch(ok)
    \/ IndexReturn

SpecKnowledge == KnowledgeInit /\ [][KnowledgeNext]_vars

\* The ids of the documents of a store, in the order of the store.
StoredIds(tbl, coll) ==
    IF storage_mode = "embedded" THEN [i \in 1..Len(tbl) |-> tbl[i].id]
    ELSE [i \in 1..Len(coll) |-> coll[i].payload["id"]]

\* C35: no two documents of the knowledge base have the same id, and a
\* call of add_knowledge that succeeded left a document whose id no
\* document of the store had before the call.
KnowledgeIdsAreUnique ==
    /\ LET ids == StoredIds(table, collection)
       IN  \A i, j \in 1..Len(ids) : i # j => ids[i] # ids[j]
    /\ (ragLast.op = "add_knowledge" /\ IsOk(ragLast.ret)) =>
          LET old == StoredIds(ragLast.before.table,
                               ragLast.before.collection)
              new == StoredIds(ragLast.after.table, ragLast.after.collection)
          IN  /\ Len(new) = Len(old) + 1
              /\ \E i \in 1..Len(new) :
                    \A j \in 1..Len(old) : new[i] # old[j]

(***************************************************************************)
(* Loading the configuration                                               *)
(***************************************************************************)

ConfigNext ==
    \/ ConfigLoad
    \/ LoadOrDefault
    \/ \E contents \in {None} \cup {Some(doc) : doc \in ConfigDocs} :
          WriteConfigFile(contents)

\* The registry, the chat, the store, the server and the terminal are not
\* used.
CoreIdle ==
    /\ granted_permissions = NONE
    /\ plugins = << >>
    /\ regLast = [op |-> "new", arg |-> None, ret |-> None, before |-> << >>]
    /\ provider = "ollama"
    /\ tool_callbacks = {}
    /\ ChatIdle
    /\ ChunkIdle
    /\ StoreIdle
    /\ RagIdle
    /\ PtyIdle
    /\ HandlerIdle
    /\ WalkIdle

\* No configuration file is there at first.
ConfigInit ==
    /\ CoreIdle
    /\ AuxIdle

SpecConfig == ConfigInit /\ [][ConfigNext]_vars

\* The document is malformed: it is not YAML, a key has a value of the
\* wrong type, or a field without default is missing.
IsMalformed(doc) ==
    \/ ~doc.yaml_ok
    \/ doc.system_prompt = Malformed
    \/ doc.top_k = Malformed
    \/ doc.system_prompt = None

\* C33: a call that loads a malformed configuration file ends with a
\* configuration error, and the default configuration is returned only
\* when the file is absent.
MalformedConfigIsAnError ==
    /\ (cfgLast.file # None /\ IsMalformed(cfgLast.file.some)) =>
          /\ IsErr(cfgLast.ret)
          /\ cfgLast.ret.err = "Failed to parse config"
    /\ cfgLast.ret = Ok(ConfigDefault) => cfgLast.file = None

\* Config::load does as the claim says: its error tells the absent file
\* from the malformed one, and a file that is well formed is loaded with
\* the default permission.
LoadFailsOnMalformed ==
    cfgLast.op = "load" =>
        /\ cfgLast.file = None =>
              cfgLast.ret = Err("Failed to read config file")
        /\ (cfgLast.file # None /\ IsMalformed(cfgLast.file.some)) =>
              cfgLast.ret = Err("Failed to parse config")
        /\ (cfgLast.file # None /\ ~IsMalformed(cfgLast.file.some)) =>
              /\ IsOk(cfgLast.ret)
              /\ cfgLast.ret.ok.system_prompt =
                    cfgLast.file.some.system_prompt.some
              /\ cfgLast.ret.ok.permission = PermissionDefault

(***************************************************************************)
(* The resolution of the model identifier                                  *)
(***************************************************************************)

\* A provider is made for some model identifier, in a file system in
\* which the identifier is the path of a file or not.
BuildInit ==
    /\ CoreIdle
    /\ ConfigIdle
    /\ EmbedIdle
    /\ McpIdle
    /\ InputIdle
    /\ model_name \in ModelNames
    /\ model_exists \in BOOLEAN
    /\ built = None

BuildNext ==
    \/ \E ok \in BOOLEAN : BuildModel(ok)

SpecBuild == BuildInit /\ [][BuildNext]_vars

\* The model was loaded of the local file model_name.
LoadedAsLocalFile ==
    /\ IsOk(built.some)
    /\ built.some.ok.builder = "GgufModelBuilder"
    /\ built.some.ok.id = PathParent(model_name)
    /\ built.some.ok.files = <<PathFileName(model_name)>>

\* C31: the identifier of an existing local model file is loaded as that
\* file, with a colon in it or without; otherwise an identifier of the
\* form repo:filename is fetched as that file of the repository, and any
\* other identifier as a repository.
ResolutionOrder ==
    built # None =>
        IF EndsWithGguf(model_name) /\ model_exists
        THEN IsOk(built.some) => LoadedAsLocalFile
        ELSE IF EndsWithGguf(model_name) /\ Len(SplitColon(model_name)) = 2
        THEN IsOk(built.some) =>
                /\ built.some.ok.builder = "GgufModelBuilder"
                /\ built.some.ok.id = SplitColon(model_name)[1]
                /\ built.some.ok.files = <<SplitColon(model_name)[2]>>
        ELSE IsOk(built.some) =>
                /\ built.some.ok.builder = "TextModelBuilder"
                /\ built.some.ok.id = model_name

\* The order of the code: an identifier with a colon that ends in .gguf
\* is never looked for as a file; without a colon the order is that of
\* the claim.
ResolutionOrderWithoutColon ==
    (built # None /\ ~StrContains(model_name, <<":">>)) =>
        IF EndsWithGguf(model_name) /\ model_exists
        THEN IsOk(built.some) => LoadedAsLocalFile
        ELSE IsOk(built.some) =>
                /\ built.some.ok.builder = "TextModelBuilder"
                /\ built.some.ok.id = model_name

(***************************************************************************)
(* The embedding model of the local provider                               *)
(***************************************************************************)

MaxEmbedCalls == 4

\* A provider that was just made, and the calls of two tasks.
EmbedInit ==
    /\ CoreIdle
    /\ ConfigIdle
    /\ BuildIdle
    /\ McpIdle
    /\ InputIdle
    /\ EmbedFresh
    /\ embed_calls_left = MaxEmbedCalls

EmbedNext ==
    \/ \E t \in EmbedTasks : EmbedCall(t)
    \/ \E t \in EmbedTasks : EmbedAcquire(t)
    \/ \E t \in EmbedTasks, ok \in BOOLEAN : EmbedLoaded(t, ok)
    \/ \E t \in EmbedTasks, ok \in BOOLEAN : EmbedGenerate(t, ok)
    \/ LocalChat

SpecEmbed == EmbedInit /\ [][EmbedNext]_vars

\* C32: the embedding model is built only in embed and is set at most
\* once: no build starts while another runs or after one succeeded, every
\* task generates with the one model of the cell, chat starts no build,
\* and a build that failed leaves the cell empty and its permit free, so
\* that a later embed builds again.
EmbeddingModelLoadedOnce ==
    /\ [](/\ Cardinality(loaded_models) <= 1
          /\ Cardinality({t \in EmbedTasks : embed_pc[t] = "loading"}) <= 1
          /\ (embedding_model = None) <=> (loaded_models = {})
          /\ \A t \in EmbedTasks :
                /\ embed_pc[t] = "generating" =>
                      (embedding_model # None /\ embed_used[t] = embedding_model)
                /\ (embed_ret[t] # None /\ IsOk(embed_ret[t])) =>
                      embed_ret[t].ok[2] \in loaded_models
                /\ embed_pc[t] = "loading" => embedding_model = None)
    /\ [][/\ local_chats' # local_chats =>
                (loads' = loads /\ embedding_model' = embedding_model)
          /\ loads' # loads => embedding_model = None
          /\ \A t \in EmbedTasks :
                (embed_pc[t] = "loading" /\ embed_pc'[t] = "idle") =>
                    /\ embedding_model' = None
                    /\ init_permit' = 0
                    /\ embed_ret'[t] = Err("Failed to load embedding model")
         ]_vars

\* After a build that failed, the next build succeeded and both tasks
\* generate with its model, a chat having been answered before.
EmbeddingModelLoadedOnceWitness ==
    /\ loads = 2
    /\ embedding_model = Some(2)
    /\ local_chats = 1
    /\ \E t \in EmbedTasks : embed_ret[t] = Err("Failed to load embedding model")
    /\ \E t \in EmbedTasks :
          embed_pc[t] = "generating" /\ embed_used[t] = Some(2)

(***************************************************************************)
(* The requests of the MCP client                                          *)
(***************************************************************************)

MaxMcpLines == 3

MaxMcpRequests == 2

\* The lines of a server: responses with a number or a string as id and a
\* result or an error, a request and a notification of the server, a
\* response that also has a method, and a line that is no JSON.
McpLines ==
    {McpLine(Some(Num(1)), None, Some("r1"), None),
     McpLine(Some(Num(1)), None, None, Some("e1")),
     McpLine(Some(Num(2)), None, Some("r2"), None),
     McpLine(Some(Str("1")), None, Some("rs"), None),
     McpLine(Some(Num(1)), Some("ping"), None, None),
     McpLine(None, Some("progress"), None, None),
     NoJson}

\* A client that was just made, of a server that writes some lines and
\* ends.
McpInit ==
    /\ CoreIdle
    /\ ConfigIdle
    /\ BuildIdle
    /\ EmbedIdle
    /\ InputIdle
    /\ McpFresh
    /\ mcp_stdout \in UNION {[1..n -> McpLines] : n \in 0..MaxMcpLines}
    /\ mcp_left = MaxMcpRequests

McpNext ==
    \/ \E send_ok \in BOOLEAN : McpRequest(send_ok)
    \/ \E read_ok \in BOOLEAN : McpReceive(read_ok)

SpecMcp == McpInit /\ [][McpNext]_vars

\* The line is a response with another id than that of the request, or a
\* request or notification of the server.
IsOtherMessage(line, id) ==
    /\ line.json
    /\ \/ line.method # None
       \/ /\ line.id # None
          /\ line.id # Some(Num(id))
          /\ (line.result # None \/ line.error # None)

\* C39: the requests get the ids 1, 2, 3, ... in their order; a call
\* returns a result or a JSON-RPC error only of a response line that has
\* the id of the request; a response with another id and a message of
\* the server with a method are passed without ending the call; at the
\* end of the output the call fails.
RequestMatchesById ==
    /\ [](/\ mcp_ids = [i \in 1..Len(mcp_ids) |-> i]
          /\ next_id = Len(mcp_ids) + 1
          /\ Len(mcp_rets) <= Len(mcp_ids)
          /\ \A k \in 1..Len(mcp_rets) :
                LET r == mcp_rets[k]
                IN  (IsOk(r.ret) \/ r.ret = Err("JSON-RPC error")) =>
                        /\ r.line # None
                        /\ r.line.some.id = Some(Num(r.id))
                        /\ r.line.some.method = None
                        /\ IsOk(r.ret) =>
                              r.line.some.result = Some(r.ret.ok)
                        /\ IsErr(r.ret) => r.line.some.error # None
          /\ \A k \in 1..Len(mcp_skipped) :
                \A j \in 1..Len(mcp_rets) :
                    IsOk(mcp_rets[j].ret) =>
                        mcp_rets[j].line # Some(mcp_skipped[k])
                        \/ mcp_skipped[k].id = Some(Num(mcp_rets[j].id)))
    /\ [][/\ (/\ mcp_pc = "waiting"
              /\ mcp_stdout # << >>
              /\ mcp_stdout' = Tail(mcp_stdout)
              /\ IsOtherMessage(Head(mcp_stdout), mcp_id)) =>
                 (mcp_pc' = "waiting" /\ mcp_rets' = mcp_rets)
          /\ (/\ mcp_pc = "waiting"
              /\ mcp_stdout = << >>
              /\ mcp_rets' # mcp_rets) =>
                 /\ mcp_pc' = "idle"
                 /\ IsErr(mcp_rets'[Len(mcp_rets')].ret)
         ]_vars

\* The first request went past two messages before its response and
\* returned its result; the second met the end of the output.
RequestMatchesByIdWitness ==
    /\ Len(mcp_rets) = 2
    /\ mcp_rets[1].id = 1
    /\ mcp_rets[1].ret = Ok("r1")
    /\ Len(mcp_skipped) = 2
    /\ mcp_skipped[1].method = None
    /\ mcp_skipped[2].method # None
    /\ mcp_rets[2].id = 2
    /\ mcp_rets[2].ret = Err("EOF reached")

(***************************************************************************)
(* The lines typed in AI mode                                              *)
(***************************************************************************)

InputKeys == TextKeys \cup {CTRL_SLASH, Return, Backspace}

\* A terminal whose keys are handled by the InputHandler.
InputInit ==
    /\ CoreIdle
    /\ ConfigIdle
    /\ BuildIdle
    /\ EmbedIdle
    /\ McpIdle
    /\ InputIdle

InputNext ==
    \/ \E key \in InputKeys : InputHandlerKey(key)

SpecInput == InputInit /\ [][InputNext]_vars

\* A terminal whose keys are handled by run_io_loop.
IoLoopNext ==
    \/ \E key \in InputKeys : IoLoopKey(key)

SpecIoLoop == InputInit /\ [][IoLoopNext]_vars

\* C40: return typed in AI mode after /exit or /quit gives the one action
\* ToggleMode and the mode is Terminal after it; after any other line it
\* gives the one action LineComplete, whose command text is the line
\* typed, after "/ai " unless the line starts with a slash.
AiLineHandling ==
    (inputLast.key = Return /\ inputLast.mode = "AI") =>
        IF TrimEnd(inputLast.typed) \in {<<"/", "exit">>, <<"/", "quit">>}
        THEN /\ inputLast.actions = <<ToggleMode>>
             /\ input_mode = "Terminal"
        ELSE /\ Len(inputLast.actions) = 1
             /\ inputLast.actions[1].action = "LineComplete"
             /\ inputLast.actions[1].cmd_text =
                   IF /\ inputLast.typed # << >>
                      /\ inputLast.typed[1] = "/"
                   THEN TrimEnd(inputLast.typed)
                   ELSE <<"/ai ">> \o TrimEnd(inputLast.typed)
             /\ input_mode = "AI"

\* The InputHandler never has a typed character in line_buffer: every
\* line it completes is the empty line.
InputHandlerLinesAreEmpty ==
    /\ line_buffer = << >>
    /\ \A i \in 1..Len(inputLast.actions) :
          inputLast.actions[i].action = "LineComplete" =>
              inputLast.actions[i].cmd_text = CmdText(inputLast.mode, << >>)

====
